---- MODULE Spec2Model ----
(***************************************************************************)
(* M-Pesa C++ SDK: the token manager (mpesa::Auth) and the STK Push        *)
(* request dispatcher (mpesa::stk::STKPushClient).                         *)
(*                                                                         *)
(* Text (std::string) is a sequence of one-character strings, so that the  *)
(* conversions of the code (std::stoi, regular expressions, Base64) are    *)
(* computed character by character.  The byte 0xFF, which is not valid     *)
(* UTF-8, is written "xFF".                                                *)
(***************************************************************************)
EXTENDS Integers, Sequences, FiniteSets, TLC

(***************************************************************************)
(* Bounds of the exploration.                                              *)
(***************************************************************************)
\* number of threads that call into the SDK concurrently
NThreads == 2
\* total number of operations (getAccessToken calls, dispatches) started
MaxOps == 2
\* the clock runs from 1 to MaxTime (the epoch, 0, is long past)
MaxTime == 3

Threads == 1..NThreads
NoThread == 0

(***************************************************************************)
(* AuthErrorCode (auth.h, reproduced in README.md).                        *)
(***************************************************************************)
SUCCESS == 0
NETWORK_ERROR == 100
DNS_ERROR == 101
CONNECTION_ERROR == 102
TIMEOUT_ERROR == 103
SSL_ERROR == 104
INVALID_CREDENTIALS == 200
INVALID_GRANT_TYPE == 201
INVALID_AUTH_TYPE == 202
TOKEN_EXPIRED == 203
SERVER_ERROR == 300
HTTP_ERROR == 301
API_ERROR == 302
INITIALIZATION_ERROR == 400
CONFIG_ERROR == 401
PARSE_ERROR == 402
INTERNAL_ERROR == 500

AuthErrorCode ==
    {SUCCESS, NETWORK_ERROR, DNS_ERROR, CONNECTION_ERROR, TIMEOUT_ERROR, SSL_ERROR,
     INVALID_CREDENTIALS, INVALID_GRANT_TYPE, INVALID_AUTH_TYPE, TOKEN_EXPIRED,
     SERVER_ERROR, HTTP_ERROR, API_ERROR, INITIALIZATION_ERROR, CONFIG_ERROR,
     PARSE_ERROR, INTERNAL_ERROR}

(***************************************************************************)
(* Characters and std::stoi.                                               *)
(***************************************************************************)
Digits == {"0", "1", "2", "3", "4", "5", "6", "7", "8", "9"}

isdigit(c) == c \in Digits

isspace(c) == c \in {" ", "\t", "\n", "\r", "\f"}

DigitVal(c) ==
    CASE c = "0" -> 0 [] c = "1" -> 1 [] c = "2" -> 2 [] c = "3" -> 3 [] c = "4" -> 4
      [] c = "5" -> 5 [] c = "6" -> 6 [] c = "7" -> 7 [] c = "8" -> 8 [] c = "9" -> 9

\* first position at or after i that holds no white space
RECURSIVE SkipSpace(_, _)
SkipSpace(s, i) ==
    IF i <= Len(s) /\ isspace(s[i]) THEN SkipSpace(s, i + 1) ELSE i

\* first position at or after i that holds no digit
RECURSIVE DigitsEnd(_, _)
DigitsEnd(s, i) ==
    IF i <= Len(s) /\ isdigit(s[i]) THEN DigitsEnd(s, i + 1) ELSE i

\* largest value of int
INT_MAX == 2147483647

\* The magnitude of the digits s[i..j-1] on top of acc, as strtol accumulates it:
\* a value in 0..INT_MAX, or -1 for exactly INT_MAX + 1, or -2 for anything larger.
RECURSIVE Magnitude(_, _, _, _)
Magnitude(s, i, j, acc) ==
    IF i >= j THEN acc
    ELSE IF acc < 0 THEN -2
    ELSE IF acc > INT_MAX \div 10 THEN -2
    ELSE IF acc = INT_MAX \div 10 /\ DigitVal(s[i]) = 8 THEN Magnitude(s, i + 1, j, -1)
    ELSE IF acc = INT_MAX \div 10 /\ DigitVal(s[i]) = 9 THEN -2
    ELSE Magnitude(s, i + 1, j, acc * 10 + DigitVal(s[i]))

\* std::stoi(s): leading white space is skipped, then an optional sign, then the
\* longest run of digits; what follows the digits is ignored.  No digit at all
\* throws std::invalid_argument, a value outside int throws std::out_of_range.
stoi(s) ==
    LET p == SkipSpace(s, 1)
        signed == p <= Len(s) /\ s[p] \in {"+", "-"}
        neg == signed /\ s[p] = "-"
        b == IF signed THEN p + 1 ELSE p
        e == DigitsEnd(s, b)
        m == Magnitude(s, b, e, 0)
    IN  IF e = b THEN [ok |-> FALSE, exc |-> "std::invalid_argument", val |-> 0]
        ELSE IF m = -2 \/ (m = -1 /\ ~neg)
             THEN [ok |-> FALSE, exc |-> "std::out_of_range", val |-> 0]
        ELSE IF m = -1 THEN [ok |-> TRUE, exc |-> "", val |-> (-INT_MAX) - 1]
        ELSE [ok |-> TRUE, exc |-> "", val |-> IF neg THEN -m ELSE m]

(***************************************************************************)
(* JSON documents (nlohmann::json), as far as the code looks into them.    *)
(* A body is  invalid text,  an array,  or an object: a function from its  *)
(* keys to values; a value is a string, a number or null.                  *)
(***************************************************************************)
JString(s) == [jt |-> "string", s |-> s, n |-> 0]
JNumber(n) == [jt |-> "number", s |-> <<>>, n |-> n]
JNull == [jt |-> "null", s |-> <<>>, n |-> 0]

NoFields == [k \in {} |-> JNull]
JInvalid == [kind |-> "invalid", fields |-> NoFields]
JArray == [kind |-> "array", fields |-> NoFields]
JObject(f) == [kind |-> "object", fields |-> f]

\* nlohmann::json::parse: throws parse_error unless the text is JSON
parse_ok(body) == body.kind # "invalid"

\* json::contains(key): true only of an object that has the key
contains(j, key) == j.kind = "object" /\ key \in DOMAIN j.fields

\* json::operator[](key): the member of an object (null when the key is absent
\* and the json is not const); type_error on anything that is not an object
index_ok(j) == j.kind = "object"
at(j, key) == IF key \in DOMAIN j.fields THEN j.fields[key] ELSE JNull

\* get<std::string>() and the implicit conversion to std::string: type_error
\* unless the value is a string
is_string(v) == v.jt = "string"

\* key present as text
has_text(j, key) == index_ok(j) /\ is_string(at(j, key))

(***************************************************************************)
(* The token endpoint, as the transport reports it to refreshToken:        *)
(* the CURLcode of curl_easy_perform, the HTTP status and the body.        *)
(***************************************************************************)
TokA == <<"t", "k", "A">>
TokB == <<"t", "k", "B">>

E400_008_02 == <<"4", "0", "0", ".", "0", "0", "8", ".", "0", "2">>
E400_008_01 == <<"4", "0", "0", ".", "0", "0", "8", ".", "0", "1">>
E401_002_01 == <<"4", "0", "1", ".", "0", "0", "2", ".", "0", "1">>
E500_001_1001 == <<"5", "0", "0", ".", "0", "0", "1", ".", "1", "0", "0", "1">>
E404_001_03 == <<"4", "0", "4", ".", "0", "0", "1", ".", "0", "3">>

TokenBody(tok, exp) == JObject([k \in {"access_token", "expires_in"} |->
                                  IF k = "access_token" THEN tok ELSE exp])
ErrorBody(code) == JObject([k \in {"errorCode", "errorMessage"} |->
                              IF k = "errorCode" THEN code ELSE JString(<<"b", "a", "d">>)])

Http(res, status, body) == [res |-> res, http_code |-> status, body |-> body]

\* what the token endpoint and the network may answer
TokenResponses ==
    << Http("CURLE_OK", 200, TokenBody(JString(TokA), JString(<<"2">>))),
       Http("CURLE_OK", 200, TokenBody(JString(TokB), JString(<<"1">>))),
       Http("CURLE_OK", 200, TokenBody(JString(TokB), JString(<<" ", "3", "s">>))),
       Http("CURLE_OK", 200, TokenBody(JString(TokA), JString(<<"0">>))),
       Http("CURLE_OK", 200, TokenBody(JString(TokB), JString(<<"-", "1">>))),
       Http("CURLE_OK", 200, TokenBody(JString(TokA), JString(<<"a", "b", "c">>))),
       Http("CURLE_OK", 200, TokenBody(JString(TokA), JString(<<>>))),
       Http("CURLE_OK", 200, TokenBody(JString(TokA),
            JString(<<"9", "9", "9", "9", "9", "9", "9", "9", "9", "9">>))),
       Http("CURLE_OK", 200, TokenBody(JString(TokA), JNumber(3599))),
       Http("CURLE_OK", 200, TokenBody(JNumber(7), JString(<<"2">>))),
       Http("CURLE_OK", 200, JObject([k \in {"access_token"} |-> JString(TokA)])),
       Http("CURLE_OK", 200, JObject([k \in {"expires_in"} |-> JString(<<"2">>)])),
       Http("CURLE_OK", 200, JObject(NoFields)),
       Http("CURLE_OK", 200, JArray),
       Http("CURLE_OK", 200, JInvalid),
       Http("CURLE_OK", 200, ErrorBody(JString(E400_008_02))),
       Http("CURLE_OK", 200, ErrorBody(JString(E400_008_01))),
       Http("CURLE_OK", 200, ErrorBody(JString(E401_002_01))),
       Http("CURLE_OK", 200, ErrorBody(JString(E500_001_1001))),
       Http("CURLE_OK", 200, ErrorBody(JString(E404_001_03))),
       Http("CURLE_OK", 200, ErrorBody(JNumber(400))),
       Http("CURLE_OK", 400, ErrorBody(JString(E400_008_02))),
       Http("CURLE_OK", 401, ErrorBody(JString(E401_002_01))),
       Http("CURLE_OK", 500, JInvalid),
       Http("CURLE_OK", 503, TokenBody(JString(TokA), JString(<<"2">>))),
       Http("CURLE_COULDNT_RESOLVE_HOST", 0, JInvalid),
       Http("CURLE_COULDNT_CONNECT", 0, JInvalid),
       Http("CURLE_OPERATION_TIMEDOUT", 0, JInvalid),
       Http("CURLE_SSL_CONNECT_ERROR", 0, JInvalid),
       Http("CURLE_RECV_ERROR", 200, TokenBody(JString(TokA), JString(<<"2">>))) >>

(***************************************************************************)
(* Helpers of auth.cpp.                                                    *)
(***************************************************************************)
map_curl_error(code) ==
    CASE code = "CURLE_COULDNT_RESOLVE_HOST" -> DNS_ERROR
      [] code = "CURLE_COULDNT_CONNECT" -> CONNECTION_ERROR
      [] code = "CURLE_OPERATION_TIMEDOUT" -> TIMEOUT_ERROR
      [] code = "CURLE_SSL_CONNECT_ERROR" -> SSL_ERROR
      [] OTHER -> NETWORK_ERROR

\* response["errorCode"].get<std::string>() throws type_error on an errorCode
\* that is not text
map_mpesa_error_throws(response) ==
    contains(response, "errorCode") /\ ~is_string(response.fields["errorCode"])

\* the mapping with the grant type and the authentication type exchanged
map_mpesa_error_Exchanged(response) ==
    IF ~contains(response, "errorCode") THEN SUCCESS
    ELSE LET error_code == response.fields["errorCode"].s
         IN  IF error_code = E400_008_02 THEN INVALID_AUTH_TYPE
             ELSE IF error_code = E400_008_01 THEN INVALID_GRANT_TYPE
             ELSE IF error_code = E401_002_01 THEN INVALID_CREDENTIALS
             ELSE IF error_code = E500_001_1001 THEN SERVER_ERROR
             ELSE API_ERROR

map_mpesa_error(response) ==
    IF ~contains(response, "errorCode") THEN SUCCESS
    ELSE LET error_code == response.fields["errorCode"].s
         IN  IF error_code = E400_008_02 THEN INVALID_GRANT_TYPE
             ELSE IF error_code = E400_008_01 THEN INVALID_AUTH_TYPE
             ELSE IF error_code = E401_002_01 THEN INVALID_CREDENTIALS
             ELSE IF error_code = E500_001_1001 THEN SERVER_ERROR
             ELSE API_ERROR

(***************************************************************************)
(* Characters as bytes, and Base64 (STKPushClient::Base64Encode, OpenSSL's *)
(* BIO_f_base64 with BIO_FLAGS_BASE64_NO_NL).                              *)
(***************************************************************************)
\* the printable ASCII characters, from 32 (space) to 126 (~); the grave
\* accent (96) is written "x60"
Ascii ==
    << " ", "!", "\"", "#", "$", "%", "&", "'", "(", ")", "*", "+", ",", "-", ".",
       "/", "0", "1", "2", "3", "4", "5", "6", "7", "8", "9", ":", ";", "<", "=",
       ">", "?", "@", "A", "B", "C", "D", "E", "F", "G", "H", "I", "J", "K", "L",
       "M", "N", "O", "P", "Q", "R", "S", "T", "U", "V", "W", "X", "Y", "Z", "[",
       "\\", "]", "^", "_", "x60", "a", "b", "c", "d", "e", "f", "g", "h", "i", "j",
       "k", "l", "m", "n", "o", "p", "q", "r", "s", "t", "u", "v", "w", "x", "y",
       "z", "{", "|", "}", "~" >>

\* the byte of a character
Ord(c) == IF c = "xFF" THEN 255 ELSE 31 + CHOOSE i \in DOMAIN Ascii : Ascii[i] = c

Base64Alphabet ==
    << "A", "B", "C", "D", "E", "F", "G", "H", "I", "J", "K", "L", "M", "N", "O",
       "P", "Q", "R", "S", "T", "U", "V", "W", "X", "Y", "Z", "a", "b", "c", "d",
       "e", "f", "g", "h", "i", "j", "k", "l", "m", "n", "o", "p", "q", "r", "s",
       "t", "u", "v", "w", "x", "y", "z", "0", "1", "2", "3", "4", "5", "6", "7",
       "8", "9", "+", "/" >>

B64Char(v) == Base64Alphabet[v + 1]

\* Base64 of a sequence of bytes: three bytes give four characters, the last
\* one or two bytes are padded with "="
RECURSIVE Base64Bytes(_)
Base64Bytes(b) ==
    IF Len(b) = 0 THEN <<>>
    ELSE IF Len(b) = 1
    THEN <<B64Char(b[1] \div 4), B64Char((b[1] % 4) * 16), "=", "=">>
    ELSE IF Len(b) = 2
    THEN <<B64Char(b[1] \div 4), B64Char((b[1] % 4) * 16 + b[2] \div 16),
           B64Char((b[2] % 16) * 4), "=">>
    ELSE <<B64Char(b[1] \div 4), B64Char((b[1] % 4) * 16 + b[2] \div 16),
           B64Char((b[2] % 16) * 4 + b[3] \div 64), B64Char(b[3] % 64)>>
         \o Base64Bytes(SubSeq(b, 4, Len(b)))

\* the encoder without BIO_FLAGS_BASE64_NO_NL: a line of up to 64 characters
\* ends with a newline
Base64Encode_WithNewline(input) ==
    IF input = <<>> THEN <<>>
    ELSE Base64Bytes([i \in DOMAIN input |-> Ord(input[i])]) \o <<"\n">>

Base64Encode(input) ==
    IF input = <<>> THEN <<>> ELSE Base64Bytes([i \in DOMAIN input |-> Ord(input[i])])

generatePassword(businessShortCode, passkey, timestamp) ==
    Base64Encode(businessShortCode \o passkey \o timestamp)

(***************************************************************************)
(* TimestampGenerator (timestamp.hpp).                                     *)
(***************************************************************************)
DigitChar(d) == Ascii[17 + d]

\* n written with exactly w digits, as strftime writes a field
RECURSIVE Field(_, _)
Field(n, w) == IF w = 0 THEN <<>> ELSE Field(n \div 10, w - 1) \o <<DigitChar(n % 10)>>

\* generate(): strftime("%Y%m%d%H%M%S") of the UTC time tm
generate(tm) ==
    Field(tm.year, 4) \o Field(tm.mon, 2) \o Field(tm.mday, 2)
    \o Field(tm.hour, 2) \o Field(tm.min, 2) \o Field(tm.sec, 2)

\* std::all_of(..., ::isdigit) and a run of digits of a regex
AllDigits(s) == \A i \in DOMAIN s : isdigit(s[i])

\* an isValid that knows how long February is
isValid_Calendar(timestamp) ==
    IF Len(timestamp) # 14 THEN FALSE
    ELSE IF ~AllDigits(timestamp) THEN FALSE
    ELSE LET month == stoi(SubSeq(timestamp, 5, 6)).val
             day == stoi(SubSeq(timestamp, 7, 8)).val
             hour == stoi(SubSeq(timestamp, 9, 10)).val
             minute == stoi(SubSeq(timestamp, 11, 12)).val
             second == stoi(SubSeq(timestamp, 13, 14)).val
         IN  IF month < 1 \/ month > 12 THEN FALSE
             ELSE IF day < 1 \/ day > (IF month = 2 THEN 29 ELSE 31) THEN FALSE
             ELSE IF hour < 0 \/ hour > 23 THEN FALSE
             ELSE IF minute < 0 \/ minute > 59 THEN FALSE
             ELSE IF second < 0 \/ second > 59 THEN FALSE
             ELSE TRUE

\* isValid(timestamp); the stoi calls see digits only and cannot throw
isValid(timestamp) ==
    IF Len(timestamp) # 14 THEN FALSE
    ELSE IF ~AllDigits(timestamp) THEN FALSE
    ELSE LET month == stoi(SubSeq(timestamp, 5, 6)).val
             day == stoi(SubSeq(timestamp, 7, 8)).val
             hour == stoi(SubSeq(timestamp, 9, 10)).val
             minute == stoi(SubSeq(timestamp, 11, 12)).val
             second == stoi(SubSeq(timestamp, 13, 14)).val
         IN  IF month < 1 \/ month > 12 THEN FALSE
             ELSE IF day < 1 \/ day > 31 THEN FALSE
             ELSE IF hour < 0 \/ hour > 23 THEN FALSE
             ELSE IF minute < 0 \/ minute > 59 THEN FALSE
             ELSE IF second < 0 \/ second > 59 THEN FALSE
             ELSE TRUE

(***************************************************************************)
(* Validator::validateSTKPushRequest (validator.hpp), its regular          *)
(* expressions matched as std::regex_match matches them: against the       *)
(* whole text.                                                             *)
(***************************************************************************)
Upper ==
    { "A", "B", "C", "D", "E", "F", "G", "H", "I", "J", "K", "L", "M", "N", "O",
      "P", "Q", "R", "S", "T", "U", "V", "W", "X", "Y", "Z" }
Lower ==
    { "a", "b", "c", "d", "e", "f", "g", "h", "i", "j", "k", "l", "m", "n", "o",
      "p", "q", "r", "s", "t", "u", "v", "w", "x", "y", "z" }
isalpha(c) == c \in Upper \cup Lower
isalnum(c) == isalpha(c) \/ isdigit(c)

\* five digits or more
business_short_code_regex_NoMaximum(s) == Len(s) >= 5 /\ AllDigits(s)

\* five or six digits
business_short_code_regex(s) == Len(s) \in {5, 6} /\ AllDigits(s)

\* a digit from 1 to 9, then digits
amount_regex(s) == Len(s) >= 1 /\ s[1] \in Digits \ {"0"} /\ AllDigits(s)

\* 2547, then eight digits
phone_regex(s) ==
    /\ Len(s) = 12
    /\ SubSeq(s, 1, 4) = <<"2", "5", "4", "7">>
    /\ AllDigits(s)

\* the position of the first c in s at or after i, or Len(s) + 1
RECURSIVE Find(_, _, _)
Find(s, c, i) == IF i > Len(s) \/ s[i] = c THEN i ELSE Find(s, c, i + 1)

\* the parts of s between the occurrences of c
RECURSIVE Split(_, _)
Split(s, c) ==
    LET k == Find(s, c, 1)
    IN  IF k > Len(s) THEN <<s>>
        ELSE <<SubSeq(s, 1, k - 1)>> \o Split(SubSeq(s, k + 1, Len(s)), c)

\* a letter or digit, then optionally up to 61 letters, digits or hyphens
\* and a final letter or digit
DomainLabel(l) ==
    /\ Len(l) \in 1..63
    /\ isalnum(l[1])
    /\ isalnum(l[Len(l)])
    /\ \A i \in DOMAIN l : isalnum(l[i]) \/ l[i] = "-"

\* two or more letters
TopLevelDomain(l) == Len(l) >= 2 /\ \A i \in DOMAIN l : isalpha(l[i])

\* the character class of the path: letters, digits and the punctuation below
PathChar(c) ==
    \/ isalnum(c)
    \/ c \in {"-", ".", "_", "~", ":", "/", "?", "#", "[", "]", "@", "!", "$", "&", "'",
              "(", ")", "*", "+", ",", ";", "="}

\* the pattern of the validator with "https?": plain http passes too
url_regex_PlainHttp(s) ==
    LET from == IF Len(s) >= 7 /\ SubSeq(s, 1, 7) = <<"h", "t", "t", "p", ":", "/", "/">>
                THEN 8 ELSE 9
    IN  /\ Len(s) >= from - 1
        /\ \/ from = 8
           \/ SubSeq(s, 1, 8) = <<"h", "t", "t", "p", "s", ":", "/", "/">>
        /\ LET slash == Find(s, "/", from)
               parts == Split(SubSeq(s, from, slash - 1), ".")
           IN  /\ slash <= Len(s)
               /\ Len(parts) >= 2
               /\ \A i \in 1..(Len(parts) - 1) : DomainLabel(parts[i])
               /\ TopLevelDomain(parts[Len(parts)])
               /\ \A i \in (slash + 1)..Len(s) : PathChar(s[i])

\* https, "://", one or more labels each followed by a dot, the top-level
\* domain, "/" and the path characters: neither a label nor the top-level
\* domain holds "/" or ".", so the host ends at the first "/" after the scheme
\* and its labels are its parts between the dots
url_regex(s) ==
    /\ Len(s) >= 8
    /\ SubSeq(s, 1, 8) = <<"h", "t", "t", "p", "s", ":", "/", "/">>
    /\ LET slash == Find(s, "/", 9)
           parts == Split(SubSeq(s, 9, slash - 1), ".")
       IN  /\ slash <= Len(s)
           /\ Len(parts) >= 2
           /\ \A i \in 1..(Len(parts) - 1) : DomainLabel(parts[i])
           /\ TopLevelDomain(parts[Len(parts)])
           /\ \A i \in (slash + 1)..Len(s) : PathChar(s[i])

ValidationSuccess == [isValid |-> TRUE, error |-> ""]
ValidationFailure(message) == [isValid |-> FALSE, error |-> message]

\* a validator that looks at the amount before the callback URL
validateSTKPushRequest_AmountFirst(request) ==
    IF ~business_short_code_regex(request.businessShortCode)
    THEN ValidationFailure("Invalid BusinessShortCode format")
    ELSE IF request.password = <<>>
    THEN ValidationFailure("Password cannot be empty")
    ELSE IF ~isValid(request.timestamp)
    THEN ValidationFailure("Invalid timestamp format")
    ELSE IF ~phone_regex(request.partyA)
    THEN ValidationFailure(
        "Invalid PartyA phone number format. Must be 12 digits starting with 2547")
    ELSE IF ~phone_regex(request.phoneNumber)
    THEN ValidationFailure(
        "Invalid phone number format. Must be 12 digits starting with 2547")
    ELSE IF request.partyB # request.businessShortCode
    THEN ValidationFailure(
        "PartyB must match BusinessShortCode for PayBill transactions")
    ELSE IF ~amount_regex(request.amount)
    THEN ValidationFailure("Amount must be a positive number")
    ELSE IF ~url_regex(request.callBackURL)
    THEN ValidationFailure(
        "Invalid callback URL format. Must be HTTPS with valid domain")
    ELSE IF request.accountReference = <<>> \/ Len(request.accountReference) > 12
    THEN ValidationFailure(
        "AccountReference must not be empty and cannot exceed 12 characters")
    ELSE IF request.transactionDesc = <<>> \/ Len(request.transactionDesc) > 13
    THEN ValidationFailure(
        "TransactionDesc must not be empty and cannot exceed 13 characters")
    ELSE ValidationSuccess

\* a validator that holds only PayBill requests to the PartyB rule
validateSTKPushRequest_PayBillOnly(request) ==
    IF ~business_short_code_regex(request.businessShortCode)
    THEN ValidationFailure("Invalid BusinessShortCode format")
    ELSE IF request.password = <<>>
    THEN ValidationFailure("Password cannot be empty")
    ELSE IF ~isValid(request.timestamp)
    THEN ValidationFailure("Invalid timestamp format")
    ELSE IF ~phone_regex(request.partyA)
    THEN ValidationFailure(
        "Invalid PartyA phone number format. Must be 12 digits starting with 2547")
    ELSE IF ~phone_regex(request.phoneNumber)
    THEN ValidationFailure(
        "Invalid phone number format. Must be 12 digits starting with 2547")
    ELSE IF /\ request.transactionType = "CustomerPayBillOnline"
            /\ request.partyB # request.businessShortCode
    THEN ValidationFailure(
        "PartyB must match BusinessShortCode for PayBill transactions")
    ELSE IF ~url_regex(request.callBackURL)
    THEN ValidationFailure(
        "Invalid callback URL format. Must be HTTPS with valid domain")
    ELSE IF ~amount_regex(request.amount)
    THEN ValidationFailure("Amount must be a positive number")
    ELSE IF request.accountReference = <<>> \/ Len(request.accountReference) > 12
    THEN ValidationFailure(
        "AccountReference must not be empty and cannot exceed 12 characters")
    ELSE IF request.transactionDesc = <<>> \/ Len(request.transactionDesc) > 13
    THEN ValidationFailure(
        "TransactionDesc must not be empty and cannot exceed 13 characters")
    ELSE ValidationSuccess

\* validateSTKPushRequest: the checks in the order of the code, the first
\* failure returned
validateSTKPushRequest(request) ==
    IF ~business_short_code_regex(request.businessShortCode)
    THEN ValidationFailure("Invalid BusinessShortCode format")
    ELSE IF request.password = <<>>
    THEN ValidationFailure("Password cannot be empty")
    ELSE IF ~isValid(request.timestamp)
    THEN ValidationFailure("Invalid timestamp format")
    ELSE IF ~phone_regex(request.partyA)
    THEN ValidationFailure(
        "Invalid PartyA phone number format. Must be 12 digits starting with 2547")
    ELSE IF ~phone_regex(request.phoneNumber)
    THEN ValidationFailure(
        "Invalid phone number format. Must be 12 digits starting with 2547")
    ELSE IF request.partyB # request.businessShortCode
    THEN ValidationFailure(
        "PartyB must match BusinessShortCode for PayBill transactions")
    ELSE IF ~url_regex(request.callBackURL)
    THEN ValidationFailure(
        "Invalid callback URL format. Must be HTTPS with valid domain")
    ELSE IF ~amount_regex(request.amount)
    THEN ValidationFailure("Amount must be a positive number")
    ELSE IF request.accountReference = <<>> \/ Len(request.accountReference) > 12
    THEN ValidationFailure(
        "AccountReference must not be empty and cannot exceed 12 characters")
    ELSE IF request.transactionDesc = <<>> \/ Len(request.transactionDesc) > 13
    THEN ValidationFailure(
        "TransactionDesc must not be empty and cannot exceed 13 characters")
    ELSE ValidationSuccess

(***************************************************************************)
(* formatPhoneNumber (request.hpp).                                        *)
(***************************************************************************)
\* what formatPhoneNumber gives: the number, or the std::runtime_error thrown
Formatted(value) == [ok |-> TRUE, value |-> value, what |-> ""]
FormatError(what) == [ok |-> FALSE, value |-> <<>>, what |-> what]

\* std::string::substr(pos, n) for pos within the text: at most n characters
substr(s, pos, n) ==
    SubSeq(s, pos + 1, IF pos + n > Len(s) THEN Len(s) ELSE pos + n)

\* a formatPhoneNumber without the final test of the length
formatPhoneNumber_AnyLength(phone) ==
    LET formatted == SelectSeq(phone, LAMBDA c : isdigit(c))
    IN  IF substr(formatted, 0, 3) = <<"2", "5", "4">> THEN Formatted(formatted)
        ELSE IF substr(formatted, 0, 1) = <<"0">>
        THEN Formatted(<<"2", "5", "4">> \o substr(formatted, 1, Len(formatted)))
        ELSE IF Len(formatted) = 9 THEN Formatted(<<"2", "5", "4">> \o formatted)
        ELSE FormatError("Invalid phone number format. Expected format: 254XXXXXXXXX")

\* formatPhoneNumber: the digits of the text; 254 kept, a leading 0 replaced by
\* 254, 254 put before nine digits, anything else refused; then the length
formatPhoneNumber(phone) ==
    LET formatted == SelectSeq(phone, LAMBDA c : isdigit(c))
        prefixed ==
            IF substr(formatted, 0, 3) = <<"2", "5", "4">> THEN Formatted(formatted)
            ELSE IF substr(formatted, 0, 1) = <<"0">>
            THEN Formatted(<<"2", "5", "4">> \o substr(formatted, 1, Len(formatted)))
            ELSE IF Len(formatted) = 9 THEN Formatted(<<"2", "5", "4">> \o formatted)
            ELSE FormatError("Invalid phone number format. Expected format: 254XXXXXXXXX")
    IN  IF ~prefixed.ok THEN prefixed
        ELSE IF Len(prefixed.value) # 12
        THEN FormatError(
            "Invalid phone number length. Must be 12 digits in format 254XXXXXXXXX")
        ELSE prefixed

(***************************************************************************)
(* CallbackParser::parseCallback (callback.cpp) and STKPushErrorCode       *)
(* (error_codes.hpp).  A callback body is a nlohmann::json value: jt is its*)
(* value_t ("discarded" for a text that is not JSON), s the text of a      *)
(* string, n the number (tenths for a number_float, 0 or 1 for a boolean), *)
(* items the elements of an array, fields the members of an object.  A     *)
(* number is held in 64 bits: n is its low 32 bits read as an int and hi   *)
(* what stands above them, so that the number is hi * 2^32 + n.            *)
(***************************************************************************)
JLeaf(jt, s, n) ==
    [jt |-> jt, s |-> s, n |-> n, hi |-> 0, items |-> <<>>, fields |-> <<>>]
JWide(jt, hi, n) ==
    [jt |-> jt, s |-> <<>>, n |-> n, hi |-> hi, items |-> <<>>, fields |-> <<>>]
JList(items) ==
    [jt |-> "array", s |-> <<>>, n |-> 0, hi |-> 0, items |-> items, fields |-> <<>>]
JObj(fields) ==
    [jt |-> "object", s |-> <<>>, n |-> 0, hi |-> 0, items |-> <<>>, fields |-> fields]

\* the enumerators of STKPushErrorCode
STKPushErrorCode == {0, 1, 2001, 1019, 1001, 1032, 1025, 9999, 1037, -1}

\* from_int: the enumerator of a known code, Unknown (-1) for any other
from_int(code) == IF code \in STKPushErrorCode \ {-1} THEN code ELSE -1

\* static_cast<int> of the std::int64_t a JSON integer is held in: the low
\* 32 bits, whatever stands above them
to_int32(hi, n) == n

\* the std::variant of a CallbackMetadataItem
Variant(type, s, hi, n) == [type |-> type, s |-> s, hi |-> hi, n |-> n]

\* the text json::dump() gives for a value that is no number and no string
dump(v) ==
    CASE v.jt = "null" -> <<"n", "u", "l", "l">>
      [] v.jt = "boolean" -> IF v.n = 1 THEN <<"t", "r", "u", "e">>
                             ELSE <<"f", "a", "l", "s", "e">>
      [] v.jt = "array" /\ v.items = <<>> -> <<"[", "]">>
      [] v.jt = "object" /\ DOMAIN v.fields = {} -> <<"{", "}">>

\* the value a metadata item is stored with, numbers of both kinds as double
Value_NumbersAlike(v) ==
    CASE v.jt \in {"number_float", "number_integer", "number_unsigned"} ->
            Variant("double", <<>>, v.hi, v.n)
      [] v.jt = "string" -> Variant("std::string", v.s, 0, 0)
      [] OTHER -> Variant("std::string", dump(v), 0, 0)

\* the value a metadata item is stored with: item["Value"] as double, as
\* std::int64_t, as std::string, or the text dump() gives for it
Value(v) ==
    CASE v.jt = "number_float" -> Variant("double", <<>>, v.hi, v.n)
      [] v.jt \in {"number_integer", "number_unsigned"} ->
            Variant("int64_t", <<>>, v.hi, v.n)
      [] v.jt = "string" -> Variant("std::string", v.s, 0, 0)
      [] OTHER -> Variant("std::string", dump(v), 0, 0)

\* the condition with the look for "Item" left out
hasMetadata_AnyMetadata(stkCallback) ==
    "CallbackMetadata" \in DOMAIN stkCallback.fields

\* stkCallback.contains("CallbackMetadata") &&
\* stkCallback["CallbackMetadata"].contains("Item"): contains is false of a
\* value that is no object
hasMetadata(stkCallback) ==
    /\ "CallbackMetadata" \in DOMAIN stkCallback.fields
    /\ stkCallback.fields["CallbackMetadata"].jt = "object"
    /\ "Item" \in DOMAIN stkCallback.fields["CallbackMetadata"].fields

\* what parseCallback comes to: the STKCallback returned, the
\* std::runtime_error thrown, or, kind "undefined", a read through the const
\* operator[] of a key the object does not have
NoCallback ==
    [kind |-> "error", merchantRequestID |-> <<>>, checkoutRequestID |-> <<>>,
     resultCode |-> 0, resultDesc |-> <<>>, callbackMetadata |-> <<>>]

\* parseCallback.  The non-const operator[] makes an object of a null and gives
\* null for a key that is absent, and throws type_error on any other value; the
\* conversion to std::string throws unless the value is a string; get<int>
\* takes any number and a boolean, and converts a number_float too large for
\* an int with no defined result.  The items are read through const
\* references: operator[] throws on an item that is no object and is undefined
\* for a key the item does not have.  Every exception leaves as
\* std::runtime_error.  An "Item" that is an object is iterated by its values;
\* it is modelled with at most one member.
parseCallback(json) ==
    LET null == JLeaf("null", <<>>, 0)
        Sub(j, key) == IF j.jt = "object" /\ key \in DOMAIN j.fields
                       THEN j.fields[key] ELSE null
        CanIndex(j) == j.jt \in {"null", "object"}
        stkCallback == Sub(Sub(json, "Body"), "stkCallback")
        ResultCode == Sub(stkCallback, "ResultCode")
        truncated == IF ResultCode.n >= 0 THEN ResultCode.n \div 10
                     ELSE -((-ResultCode.n) \div 10)
        meta == Sub(stkCallback, "CallbackMetadata")
        hasItems == hasMetadata(stkCallback)
        Item == Sub(meta, "Item")
        elements == CASE Item.jt = "array" -> Item.items
                      [] Item.jt = "null" -> <<>>
                      [] Item.jt = "object" ->
                            [i \in 1..Cardinality(DOMAIN Item.fields) |->
                                Item.fields[CHOOSE k \in DOMAIN Item.fields : TRUE]]
                      [] OTHER -> <<Item>>
        Read(item) ==
            IF item.jt # "object" THEN "error"
            ELSE IF "Name" \notin DOMAIN item.fields THEN "undefined"
            ELSE IF item.fields["Name"].jt # "string" THEN "error"
            ELSE IF "Value" \notin DOMAIN item.fields THEN "undefined"
            ELSE "callback"
        unread == {i \in DOMAIN elements : Read(elements[i]) # "callback"}
    IN  IF json.jt = "discarded" THEN NoCallback
        ELSE IF ~CanIndex(json) \/ ~CanIndex(Sub(json, "Body")) \/ ~CanIndex(stkCallback)
        THEN NoCallback
        ELSE IF Sub(stkCallback, "MerchantRequestID").jt # "string" THEN NoCallback
        ELSE IF Sub(stkCallback, "CheckoutRequestID").jt # "string" THEN NoCallback
        ELSE IF ResultCode.jt \notin {"number_integer", "number_unsigned",
                                      "number_float", "boolean"}
        THEN NoCallback
        ELSE IF ResultCode.jt = "number_float" /\ ResultCode.hi # 0
        THEN [NoCallback EXCEPT !.kind = "undefined"]
        ELSE IF Sub(stkCallback, "ResultDesc").jt # "string" THEN NoCallback
        ELSE IF hasItems /\ unread # {}
        THEN [NoCallback EXCEPT
                 !.kind = Read(elements[CHOOSE i \in unread : \A j \in unread : i <= j])]
        ELSE [kind |-> "callback",
              merchantRequestID |-> Sub(stkCallback, "MerchantRequestID").s,
              checkoutRequestID |-> Sub(stkCallback, "CheckoutRequestID").s,
              resultCode |-> IF ResultCode.jt = "number_float" THEN truncated
                             ELSE IF ResultCode.jt = "boolean" THEN ResultCode.n
                             ELSE to_int32(ResultCode.hi, ResultCode.n),
              resultDesc |-> Sub(stkCallback, "ResultDesc").s,
              callbackMetadata |->
                  IF hasItems
                  THEN <<[i \in DOMAIN elements |->
                            [name |-> elements[i].fields["Name"].s,
                             value |-> Value(elements[i].fields["Value"])]]>>
                  ELSE <<>>]

\* STKCallback::getMetadataValue<T>: the first item of that name, if it holds
\* a T (response.hpp declares it; the definition is not among the sources)
getMetadataValue(callback, name, type) ==
    IF callback.callbackMetadata = <<>> THEN <<>>
    ELSE LET items == callback.callbackMetadata[1]
             named == {i \in DOMAIN items : items[i].name = name}
             first == CHOOSE i \in named : \A j \in named : i <= j
         IN  IF named = {} \/ items[first].value.type # type THEN <<>>
             ELSE <<items[first].value>>

getAmount(callback) ==
    getMetadataValue(callback, <<"A", "m", "o", "u", "n", "t">>, "double")

getMpesaReceiptNumber(callback) ==
    getMetadataValue(callback, <<"M", "p", "e", "s", "a", "R", "e", "c", "e", "i", "p", "t", "N", "u", "m", "b", "e", "r">>, "std::string")

(***************************************************************************)
(* The configuration, the requests the application dispatches, and the     *)
(* payment endpoint.                                                       *)
(***************************************************************************)
AuthConfig ==
    [consumer_key |-> <<"k", "e", "y">>, consumer_secret |-> <<"s", "e", "c">>,
     sandbox |-> TRUE, stk_passkey |-> <<"b", "f", "b", "2">>]

\* the UTC time at which the client is constructed
ConstructionTimes ==
    { [year |-> 2024, mon |-> 2, mday |-> 29, hour |-> 23, min |-> 59, sec |-> 59] }

Timestamps == {generate(tm) : tm \in ConstructionTimes}

\* STKPushRequest values as the application hands them to initiateSTKPush
Requests ==
    << [businessShortCode |-> <<"1", "7", "4", "3", "7", "9">>,
        password |-> <<"p", "w">>, timestamp |-> <<"1", "9", "9", "9">>,
        transactionType |-> "CustomerPayBillOnline", amount |-> <<"1">>,
        partyA |-> <<"2", "5", "4", "7", "1", "2", "3", "4", "5", "6", "7", "8">>,
        partyB |-> <<"1", "7", "4", "3", "7", "9">>,
        phoneNumber |-> <<"2", "5", "4", "7", "1", "2", "3", "4", "5", "6", "7", "8">>,
        callBackURL |-> <<"h", "t", "t", "p", "s", ":", "/", "/", "e", "x", "a", "m", "p", "l", "e", ".", "c", "o", "m", "/", "c", "b">>,
        accountReference |-> <<"T", "e", "s", "t">>,
        transactionDesc |-> <<"P", "a", "y">>],
       [businessShortCode |-> <<"1", "7", "4", "3", "7", "9", "0">>,
        password |-> <<"s", "e", "c", "r", "e", "t">>,
        timestamp |-> <<"2", "0", "2", "4", "0", "1", "0", "1", "0", "0", "0", "0", "0", "0">>,
        transactionType |-> "CustomerPayBillOnline", amount |-> <<"1">>,
        partyA |-> <<"2", "5", "4", "7", "1", "2", "3", "4", "5", "6", "7", "8">>,
        partyB |-> <<"1", "7", "4", "3", "7", "9", "0">>,
        phoneNumber |-> <<"2", "5", "4", "7", "1", "2", "3", "4", "5", "6", "7", "8">>,
        callBackURL |-> <<"h", "t", "t", "p", "s", ":", "/", "/", "e", "x", "a", "m", "p", "l", "e", ".", "c", "o", "m", "/", "c", "b">>,
        accountReference |-> <<"T", "e", "s", "t">>,
        transactionDesc |-> <<"P", "a", "y">>],
       [businessShortCode |-> <<"1", "7", "4", "3", "7">>, password |-> <<>>,
        timestamp |-> <<>>, transactionType |-> "CustomerBuyGoodsOnline",
        amount |-> <<"2", "5">>,
        partyA |-> <<"2", "5", "4", "7", "1", "2", "3", "4", "5", "6", "7", "8">>,
        partyB |-> <<"1", "7", "4", "3", "7">>,
        phoneNumber |-> <<"2", "5", "4", "7", "1", "2", "3", "4", "5", "6", "7", "8">>,
        callBackURL |-> <<"h", "t", "t", "p", "s", ":", "/", "/", "e", "x", "a", "m", "p", "l", "e", ".", "c", "o", "m", "/", "c", "b">>,
        accountReference |-> <<"T", "xFF">>, transactionDesc |-> <<"P", "a", "y">>] >>

\* a stamping that keeps a password and a timestamp the caller supplied
Stamp_KeepsCaller(request, timestamp) ==
    [request EXCEPT
        !.password = IF @ = <<>>
                     THEN generatePassword(request.businessShortCode,
                                           AuthConfig.stk_passkey, timestamp)
                     ELSE @,
        !.timestamp = IF @ = <<>> THEN timestamp ELSE @]

\* initiateSTKPush before the asynchronous task: password and timestamp are set
Stamp(request, timestamp) ==
    [request EXCEPT
        !.password = generatePassword(request.businessShortCode,
                                      AuthConfig.stk_passkey, timestamp),
        !.timestamp = timestamp]

\* the local copy of each request inside the task, by construction timestamp
StampedRequests ==
    [ts \in Timestamps |-> [r \in DOMAIN Requests |-> Stamp(Requests[r], ts)]]

\* the validation of each local copy
Validations ==
    [ts \in Timestamps |->
        [r \in DOMAIN Requests |-> validateSTKPushRequest(StampedRequests[ts][r])]]

\* toJson().dump() throws type_error (316) on text that is not UTF-8
ValidUtf8(s) == \A i \in DOMAIN s : s[i] # "xFF"

dump_ok(request) ==
    /\ ValidUtf8(request.businessShortCode) /\ ValidUtf8(request.password)
    /\ ValidUtf8(request.timestamp) /\ ValidUtf8(request.amount)
    /\ ValidUtf8(request.partyA) /\ ValidUtf8(request.partyB)
    /\ ValidUtf8(request.phoneNumber) /\ ValidUtf8(request.callBackURL)
    /\ ValidUtf8(request.accountReference) /\ ValidUtf8(request.transactionDesc)

AckKeys ==
    {"MerchantRequestID", "CheckoutRequestID", "ResponseCode", "ResponseDescription",
     "CustomerMessage"}

AckValue(k) ==
    CASE k = "MerchantRequestID" -> JString(<<"m", "1">>)
      [] k = "CheckoutRequestID" -> JString(<<"w", "s", "9">>)
      [] k = "ResponseCode" -> JString(<<"0">>)
      [] k = "ResponseDescription" -> JString(<<"o", "k">>)
      [] k = "CustomerMessage" -> JString(<<"s", "e", "n", "t">>)

\* what the payment endpoint and the network may answer
PostResponses ==
    << Http("CURLE_OK", 200, JObject([k \in AckKeys |-> AckValue(k)])),
       Http("CURLE_OK", 200, JObject([k \in AckKeys \ {"CustomerMessage"} |-> AckValue(k)])),
       Http("CURLE_OK", 200, JObject([k \in AckKeys |->
            IF k = "ResponseCode" THEN JNumber(0) ELSE AckValue(k)])),
       Http("CURLE_OK", 200, JInvalid),
       Http("CURLE_OK", 200, JArray),
       Http("CURLE_OK", 400, ErrorBody(JString(E400_008_02))),
       Http("CURLE_OK", 404, ErrorBody(JNumber(404))),
       Http("CURLE_OK", 500, JInvalid),
       Http("CURLE_OK", 503, JObject([k \in AckKeys |-> AckValue(k)])),
       Http("CURLE_OPERATION_TIMEDOUT", 0, JInvalid),
       Http("CURLE_COULDNT_CONNECT", 0, JInvalid) >>

(***************************************************************************)
(* State.                                                                  *)
(***************************************************************************)
VARIABLES
    \* mpesa::Auth
    current_token_,   \* std::optional<std::string>: <<>> is nullopt, <<tok>> holds tok
    token_expiry_,    \* time_point
    last_error_,      \* AuthErrorCode
    token_mutex_,     \* the thread that holds the mutex, or NoThread
    \* mpesa::stk::STKPushClient
    successCount_,    \* std::atomic<int>
    failureCount_,    \* std::atomic<int>
    timestamp_,       \* the timestamp taken when the client was constructed
    \* the environment
    now,              \* std::chrono::system_clock::now()
    authRequests,     \* requests received by the token endpoint
    postRequests,     \* requests received by the payment endpoint
    \* the threads
    op,               \* what each thread is running
    pc,               \* where it is
    req,              \* the request of its dispatch (an index of Requests)
    call,             \* its getAccessToken call in progress
    disp,             \* its dispatch in progress
    \* history
    started,          \* operations started
    last,             \* the call or dispatch that ended most recently
    hist,             \* summary of the calls and dispatches ended so far
    heap,             \* the libcurl objects alive: easy handles, header lists
    \* a function of the SDK called on its own
    fn,               \* the function ("none" when there is no such call)
    arg,              \* its argument
    out               \* <<>> before the call, <<what it returned>> after it

vars == <<current_token_, token_expiry_, last_error_, token_mutex_, successCount_,
          failureCount_, timestamp_, now, authRequests, postRequests, op, pc, req,
          call, disp, started, last, hist, heap, fn, arg, out>>

unitVars == <<fn, arg, out>>
sdkVars == <<current_token_, token_expiry_, last_error_, token_mutex_, successCount_,
             failureCount_, timestamp_, now, authRequests, postRequests, op, pc, req,
             call, disp, started, last, hist, heap>>
authVars == <<current_token_, token_expiry_, last_error_, token_mutex_>>
clientVars == <<successCount_, failureCount_, timestamp_>>
netVars == <<authRequests, postRequests>>

nullopt == <<>>
Some(tok) == <<tok>>

\* the default-constructed time_point: the clock's epoch
Epoch == 0

\* A getAccessToken call in progress: whether the thread found the mutex held
\* when it called, what it found once it had the mutex, and the token
\* requests it has issued.
NoCall ==
    [waited |-> FALSE, entryUsable |-> FALSE, entryAtExpiry |-> FALSE,
     entryToken |-> nullopt, entryExpiry |-> Epoch, reqs |-> 0]

\* A getAccessToken call that ended.  entryAtExpiry: a token was held and the
\* time was its expiry; entryHeld: a token was held.  ret is "token", "AuthenticationError" or
\* the name of another exception; cached: the token returned is the one found
\* on entry; kept: token and expiry are as found on entry; usable and
\* last_error: the token state at the return.
NoReturn ==
    [waited |-> FALSE, entryUsable |-> FALSE, entryAtExpiry |-> FALSE,
     entryHeld |-> FALSE, reqs |-> 0, ret |-> "", token |-> <<>>, code |-> SUCCESS, cached |-> FALSE, kept |-> FALSE,
     usable |-> FALSE, last_error |-> SUCCESS]

\* Result<STKPushResponse>: success with the acknowledgement, or an error
\* message: a literal of the code, then library text (what(), strerror), then
\* text taken from the response
Message(prefix, lib, a, b) == [prefix |-> prefix, lib |-> lib, a |-> a, b |-> b]
NoMessage == Message("", "", <<>>, <<>>)
NoAck ==
    [merchantRequestID |-> <<>>, checkoutRequestID |-> <<>>, responseCode |-> <<>>,
     responseDescription |-> <<>>, customerMessage |-> <<>>]
Success(ack) == [success |-> TRUE, error |-> NoMessage, value |-> ack]
Failure(msg) == [success |-> FALSE, error |-> msg, value |-> NoAck]

\* A dispatch in progress: the steps taken, how its getAccessToken call ended
\* ("" before it), the token requests that call issued, the bearer token put in
\* the header, the POSTs issued, and, once the path is decided, the Result and
\* the counter ("S", "F") the path increments before returning it; validated,
\* posted: <<>>, or <<the request handed to the validator>>, <<the request
\* serialized into the payload of the POST>>.
\* curl: the CurlWrapper of the task is alive.
NoDispatch ==
    [steps |-> <<>>, tokenRet |-> "", tokenReqs |-> 0, bearer |-> nullopt,
     posts |-> 0, count |-> "", result |-> Failure(NoMessage),
     validated |-> <<>>, posted |-> <<>>, curl |-> FALSE]

\* A dispatch that ended: the above, its request, by how much each counter
\* moved when the task incremented, and whether another task was about to
\* increment at that moment
NoDone ==
    [req |-> 0, steps |-> <<>>, tokenRet |-> "", tokenReqs |-> 0, bearer |-> nullopt,
     posts |-> 0, result |-> Failure(NoMessage), dS |-> 0, dF |-> 0, raced |-> FALSE,
     validated |-> <<>>, posted |-> <<>>]

\* no libcurl object is alive; global: curl_global_init was called (the
\* constructor of STKPushClient) and curl_global_cleanup was not
NoHeap == [handles |-> 0, slists |-> 0, global |-> TRUE]

\* curl_easy_init, curl_easy_cleanup; curl_slist_append to a null list,
\* curl_slist_free_all
curl_easy_init(h) == [h EXCEPT !.handles = @ + 1]
curl_easy_cleanup(h) == [h EXCEPT !.handles = @ - 1]
curl_slist_append(h) == [h EXCEPT !.slists = @ + 1]
curl_slist_free_all(h) == [h EXCEPT !.slists = @ - 1]

NoLast == [kind |-> "none", call |-> NoReturn, disp |-> NoDone]

\* returned: calls of the application ended; first*: the first of them; odd: a
\* later one ended otherwise than by returning the first one's token;
\* contended: one that had to wait for the mutex has ended; succeeded, failed:
\* Results returned by dispatches
NoHist ==
    [returned |-> 0, firstDone |-> FALSE, firstOk |-> FALSE, firstToken |-> <<>>,
     firstExpiry |-> Epoch, odd |-> FALSE, contended |-> FALSE,
     succeeded |-> 0, failed |-> 0]

(***************************************************************************)
(* mpesa::stk::STKPushClient (client.cpp).                                 *)
(***************************************************************************)
\* std::to_string of a number that is not negative
RECURSIVE to_string(_)
to_string(n) ==
    IF n < 10 THEN <<DigitChar(n)>> ELSE to_string(n \div 10) \o <<DigitChar(n % 10)>>

\* curl_easy_strerror: the library's text for a CURLcode
curl_easy_strerror(res) == res

\* a classification that reads a key the body lacks as empty text
classify_Lenient(resp) ==
    IF resp.res # "CURLE_OK"
    THEN [result |-> Failure(Message("CURL error: ", curl_easy_strerror(resp.res),
                                     <<>>, <<>>)),
          count |-> "F"]
    ELSE IF resp.http_code >= 400
    THEN [result |-> Failure(Message("HTTP error: ", "", to_string(resp.http_code),
                                     <<>>)),
          count |-> "F"]
    ELSE IF ~parse_ok(resp.body) \/ ~index_ok(resp.body)
    THEN [result |-> Failure(Message("JSON parse error: ", "parse_error", <<>>, <<>>)),
          count |-> "F"]
    ELSE [result |-> Success([merchantRequestID |-> at(resp.body, "MerchantRequestID").s,
                              checkoutRequestID |-> at(resp.body, "CheckoutRequestID").s,
                              responseCode |-> at(resp.body, "ResponseCode").s,
                              responseDescription |->
                                  at(resp.body, "ResponseDescription").s,
                              customerMessage |-> at(resp.body, "CustomerMessage").s]),
          count |-> "S"]

\* the asynchronous task once curl_easy_perform has returned resp: the Result
\* and the counter incremented on the way to it
\* a classification that looks at the HTTP status before the CURLcode
classify_StatusFirst(resp) ==
    IF resp.http_code >= 400
    THEN IF parse_ok(resp.body) /\ has_text(resp.body, "errorMessage")
            /\ has_text(resp.body, "errorCode")
         THEN [result |-> Failure(Message("API Error: ", "",
                                          at(resp.body, "errorMessage").s,
                                          at(resp.body, "errorCode").s)),
               count |-> "F"]
         ELSE [result |-> Failure(Message("HTTP error: ", "",
                                          to_string(resp.http_code), <<>>)),
               count |-> "F"]
    ELSE IF resp.res # "CURLE_OK"
    THEN [result |-> Failure(Message("CURL error: ", curl_easy_strerror(resp.res),
                                     <<>>, <<>>)),
          count |-> "F"]
    ELSE IF ~parse_ok(resp.body)
    THEN [result |-> Failure(Message("JSON parse error: ", "parse_error", <<>>, <<>>)),
          count |-> "F"]
    ELSE IF \E k \in AckKeys : ~has_text(resp.body, k)
    THEN [result |-> Failure(Message("JSON parse error: ", "type_error", <<>>, <<>>)),
          count |-> "F"]
    ELSE [result |-> Success([merchantRequestID |-> at(resp.body, "MerchantRequestID").s,
                              checkoutRequestID |-> at(resp.body, "CheckoutRequestID").s,
                              responseCode |-> at(resp.body, "ResponseCode").s,
                              responseDescription |->
                                  at(resp.body, "ResponseDescription").s,
                              customerMessage |-> at(resp.body, "CustomerMessage").s]),
          count |-> "S"]

\* the classification of what curl_easy_perform delivered
classify(resp) ==
    IF resp.res # "CURLE_OK"
    THEN [result |-> Failure(Message("CURL error: ", curl_easy_strerror(resp.res),
                                     <<>>, <<>>)),
          count |-> "F"]
    ELSE IF resp.http_code >= 400
    THEN IF parse_ok(resp.body) /\ has_text(resp.body, "errorMessage")
            /\ has_text(resp.body, "errorCode")
         THEN [result |-> Failure(Message("API Error: ", "",
                                          at(resp.body, "errorMessage").s,
                                          at(resp.body, "errorCode").s)),
               count |-> "F"]
         ELSE [result |-> Failure(Message("HTTP error: ", "",
                                          to_string(resp.http_code), <<>>)),
               count |-> "F"]
    ELSE IF ~parse_ok(resp.body)
    THEN [result |-> Failure(Message("JSON parse error: ", "parse_error", <<>>, <<>>)),
          count |-> "F"]
    ELSE IF \E k \in AckKeys : ~has_text(resp.body, k)
    THEN [result |-> Failure(Message("JSON parse error: ", "type_error", <<>>, <<>>)),
          count |-> "F"]
    ELSE [result |-> Success([merchantRequestID |-> at(resp.body, "MerchantRequestID").s,
                              checkoutRequestID |-> at(resp.body, "CheckoutRequestID").s,
                              responseCode |-> at(resp.body, "ResponseCode").s,
                              responseDescription |->
                                  at(resp.body, "ResponseDescription").s,
                              customerMessage |-> at(resp.body, "CustomerMessage").s]),
          count |-> "S"]

(***************************************************************************)
(* mpesa::Auth (auth.cpp).                                                 *)
(***************************************************************************)
\* isTokenValid with the comparison turned round
isTokenValid_Reversed == now > token_expiry_

isTokenValid == now < token_expiry_

\* the condition without the look at the expiry
NeedsRefresh_NoExpiry == current_token_ = nullopt

\* a getAccessToken that refreshes on every call
NeedsRefresh_Always == TRUE

\* the condition of getAccessToken under which it refreshes
NeedsRefresh == current_token_ = nullopt \/ ~isTokenValid

\* getAccessToken without the lock_guard
CanLock_NoMutex == TRUE

\* std::lock_guard<std::mutex> lock(token_mutex_) gets past its constructor
CanLock == token_mutex_ = NoThread

\* a failure path that also resets the token
Refreshed_Resetting(error) ==
    [token |-> nullopt, expiry |-> Epoch, last_error |-> error,
     error_code |-> error, thrown |-> ""]

\* refreshToken fails with error: only last_error_ is written
Refreshed(error) ==
    [token |-> current_token_, expiry |-> token_expiry_, last_error |-> error,
     error_code |-> error, thrown |-> ""]

\* refreshToken is left by an exception that its catch clause does not name
Thrown(exc) ==
    [token |-> current_token_, expiry |-> token_expiry_, last_error |-> last_error_,
     error_code |-> SUCCESS, thrown |-> exc]

\* a refreshToken whose success leaves last_error_ as it was
refreshToken_KeepsError(resp) ==
    IF resp.res # "CURLE_OK" THEN Refreshed(map_curl_error(resp.res))
    ELSE IF resp.http_code >= 400 THEN Refreshed(HTTP_ERROR)
    ELSE IF ~parse_ok(resp.body) THEN Refreshed(PARSE_ERROR)
    ELSE IF map_mpesa_error_throws(resp.body) THEN Refreshed(PARSE_ERROR)
    ELSE IF map_mpesa_error(resp.body) # SUCCESS
         THEN Refreshed(map_mpesa_error(resp.body))
    ELSE IF ~has_text(resp.body, "access_token") THEN Refreshed(PARSE_ERROR)
    ELSE IF ~has_text(resp.body, "expires_in") THEN Refreshed(PARSE_ERROR)
    ELSE LET expires_in == stoi(at(resp.body, "expires_in").s)
         IN  IF ~expires_in.ok THEN Thrown(expires_in.exc)
             ELSE [token |-> Some(at(resp.body, "access_token").s),
                   expiry |-> now + expires_in.val,
                   last_error |-> last_error_, error_code |-> SUCCESS, thrown |-> ""]

\* a refreshToken that reads the body before it looks at the HTTP status
refreshToken_BodyFirst(resp) ==
    IF resp.res # "CURLE_OK" THEN Refreshed(map_curl_error(resp.res))
    ELSE IF ~parse_ok(resp.body)
    THEN Refreshed(IF resp.http_code >= 400 THEN HTTP_ERROR ELSE PARSE_ERROR)
    ELSE IF map_mpesa_error_throws(resp.body) THEN Refreshed(PARSE_ERROR)
    ELSE IF map_mpesa_error(resp.body) # SUCCESS
         THEN Refreshed(map_mpesa_error(resp.body))
    ELSE IF resp.http_code >= 400 THEN Refreshed(HTTP_ERROR)
    ELSE IF ~has_text(resp.body, "access_token") THEN Refreshed(PARSE_ERROR)
    ELSE IF ~has_text(resp.body, "expires_in") THEN Refreshed(PARSE_ERROR)
    ELSE LET expires_in == stoi(at(resp.body, "expires_in").s)
         IN  IF ~expires_in.ok THEN Thrown(expires_in.exc)
             ELSE [token |-> Some(at(resp.body, "access_token").s),
                   expiry |-> now + expires_in.val,
                   last_error |-> SUCCESS, error_code |-> SUCCESS, thrown |-> ""]

\* refreshToken once curl_easy_perform has returned resp: the new token state,
\* and the error_code of the AuthResponse returned or the exception thrown
refreshToken(resp) ==
    IF resp.res # "CURLE_OK" THEN Refreshed(map_curl_error(resp.res))
    ELSE IF resp.http_code >= 400 THEN Refreshed(HTTP_ERROR)
    ELSE IF ~parse_ok(resp.body) THEN Refreshed(PARSE_ERROR)
    ELSE IF map_mpesa_error_throws(resp.body) THEN Refreshed(PARSE_ERROR)
    ELSE IF map_mpesa_error(resp.body) # SUCCESS
         THEN Refreshed(map_mpesa_error(resp.body))
    ELSE IF ~has_text(resp.body, "access_token") THEN Refreshed(PARSE_ERROR)
    ELSE IF ~has_text(resp.body, "expires_in") THEN Refreshed(PARSE_ERROR)
    ELSE LET expires_in == stoi(at(resp.body, "expires_in").s)
         IN  IF ~expires_in.ok THEN Thrown(expires_in.exc)
             ELSE [token |-> Some(at(resp.body, "access_token").s),
                   expiry |-> now + expires_in.val,
                   last_error |-> SUCCESS, error_code |-> SUCCESS, thrown |-> ""]

\* how getAccessToken ends after refreshToken ended as r
getAccessToken(r) ==
    IF r.thrown # "" THEN [ret |-> r.thrown, token |-> <<>>, code |-> SUCCESS]
    ELSE IF r.error_code # SUCCESS
    THEN [ret |-> "AuthenticationError", token |-> <<>>, code |-> r.error_code]
    ELSE [ret |-> "token", token |-> r.token[1], code |-> SUCCESS]

\* what() of the exceptions that leave getAccessToken
What(exc) ==
    CASE exc = "AuthenticationError" -> "Failed to get access token"
      [] exc = "std::invalid_argument" -> "stoi"
      [] exc = "std::out_of_range" -> "stoi"

\* the catch clause with the other counter
RequestError_CountsSuccess(lib) ==
    [result |-> Failure(Message("Request error: ", lib, <<>>, <<>>)), count |-> "S"]

\* the catch (const std::exception& e) of the task: failureCount_++ and a
\* failure Result
RequestError(lib) ==
    [result |-> Failure(Message("Request error: ", lib, <<>>, <<>>)), count |-> "F"]

\* a task that goes on to the POST whatever getAccessToken did
AfterToken_GoesOn(ret) == "post"

\* where the task goes when its getAccessToken call has ended with ret
AfterToken(ret) == IF ret = "token" THEN "post" ELSE "count"

\* a thread enters getAccessToken; it blocks if the mutex is held
EnterCall == [NoCall EXCEPT !.waited = token_mutex_ # NoThread]

\* the thread has the mutex and looks at the token state
Entered(t) ==
    [call[t] EXCEPT !.entryUsable = current_token_ # nullopt /\ now < token_expiry_,
                    !.entryAtExpiry = current_token_ # nullopt /\ now = token_expiry_,
                    !.entryToken = current_token_,
                    !.entryExpiry = token_expiry_]

\* The getAccessToken call c of thread t ends with g, the token state being
\* tok, exp, err at that moment.  A call of the application is recorded; a
\* dispatch goes on from there.
Return(t, c, g, tok, exp, err) ==
    LET d == [waited |-> c.waited, entryUsable |-> c.entryUsable,
              entryAtExpiry |-> c.entryAtExpiry,
              entryHeld |-> c.entryToken # nullopt, reqs |-> c.reqs,
              ret |-> g.ret, token |-> g.token, code |-> g.code,
              cached |-> g.ret = "token" /\ c.entryToken = Some(g.token),
              kept |-> tok = c.entryToken /\ exp = c.entryExpiry,
              usable |-> tok # nullopt /\ now < exp,
              last_error |-> err]
    IN  /\ call' = [call EXCEPT ![t] = NoCall]
        /\ IF op[t] = "getAccessToken"
           THEN /\ pc' = [pc EXCEPT ![t] = "done"]
                /\ disp' = disp
                /\ last' = [kind |-> "call", call |-> d, disp |-> NoDone]
                /\ hist' = [hist EXCEPT
                       !.returned = @ + 1,
                       !.firstDone = TRUE,
                       !.firstOk = IF hist.firstDone THEN @ ELSE d.ret = "token",
                       !.firstToken = IF hist.firstDone THEN @ ELSE d.token,
                       !.firstExpiry = IF hist.firstDone THEN @ ELSE exp,
                       !.odd = IF hist.firstDone
                               THEN @ \/ d.ret # "token" \/ d.token # hist.firstToken
                               ELSE @,
                       !.contended = @ \/ c.waited]
           ELSE /\ pc' = [pc EXCEPT ![t] = AfterToken(d.ret)]
                /\ disp' = [disp EXCEPT
                       ![t].steps = Append(@, "token"),
                       ![t].tokenRet = d.ret,
                       ![t].tokenReqs = d.reqs,
                       ![t].bearer = IF d.ret = "token" THEN Some(d.token) ELSE nullopt,
                       ![t].result = IF d.ret = "token" THEN @
                                     ELSE RequestError(What(d.ret)).result,
                       ![t].count = IF d.ret = "token" THEN @
                                    ELSE RequestError(What(d.ret)).count]
                /\ hist' = [hist EXCEPT
                       !.firstDone = TRUE,
                       !.firstOk = IF hist.firstDone THEN @ ELSE d.ret = "token",
                       !.firstToken = IF hist.firstDone THEN @ ELSE d.token,
                       !.firstExpiry = IF hist.firstDone THEN @ ELSE exp]
                /\ last' = last

\* a thread of the application calls getAccessToken
CallGetAccessToken(t) ==
    /\ pc[t] \in {"idle", "done"}
    /\ started < MaxOps
    /\ started' = started + 1
    /\ op' = [op EXCEPT ![t] = "getAccessToken"]
    /\ pc' = [pc EXCEPT ![t] = "auth_lock"]
    /\ req' = [req EXCEPT ![t] = 0]
    /\ call' = [call EXCEPT ![t] = EnterCall]
    /\ UNCHANGED <<unitVars, heap, authVars, clientVars, now, netVars, disp, last, hist>>

\* getAccessToken, the token being present and valid: it is returned
ReturnCached(t) ==
    /\ pc[t] = "auth_lock"
    /\ CanLock
    /\ ~NeedsRefresh
    /\ Return(t, Entered(t),
              [ret |-> "token", token |-> current_token_[1], code |-> SUCCESS],
              current_token_, token_expiry_, last_error_)
    /\ UNCHANGED <<unitVars, heap, authVars, clientVars, now, netVars, op, req, started>>

\* getAccessToken refreshes and curl_easy_init fails
RefreshInitFails(t) ==
    /\ pc[t] = "auth_lock"
    /\ CanLock
    /\ NeedsRefresh
    /\ last_error_' = INITIALIZATION_ERROR
    /\ Return(t, Entered(t), getAccessToken(Refreshed(INITIALIZATION_ERROR)),
              current_token_, token_expiry_, INITIALIZATION_ERROR)
    /\ UNCHANGED <<unitVars, heap, current_token_, token_expiry_, token_mutex_, clientVars, now,
                   netVars, op, req, started>>

\* getAccessToken refreshes: refreshToken sends the request to the token
\* endpoint (curl_easy_perform) with the mutex held
RefreshSend(t) ==
    /\ pc[t] = "auth_lock"
    /\ CanLock
    /\ NeedsRefresh
    /\ heap' = curl_slist_append(curl_easy_init(heap))
    /\ token_mutex_' = t
    /\ authRequests' = authRequests + 1
    /\ pc' = [pc EXCEPT ![t] = "auth_perform"]
    /\ call' = [call EXCEPT ![t] = [Entered(t) EXCEPT !.reqs = @ + 1]]
    /\ UNCHANGED <<unitVars, current_token_, token_expiry_, last_error_, clientVars, now,
                   postRequests, op, req, disp, started, last, hist>>

\* curl_easy_perform returns; refreshToken and getAccessToken run to their end
RefreshReceive(t, resp) ==
    /\ pc[t] = "auth_perform"
    /\ heap' = curl_easy_cleanup(curl_slist_free_all(heap))
    /\ LET r == refreshToken(resp)
       IN  /\ current_token_' = r.token
           /\ token_expiry_' = r.expiry
           /\ last_error_' = r.last_error
           /\ Return(t, call[t], getAccessToken(r), r.token, r.expiry, r.last_error)
    /\ token_mutex_' = NoThread
    /\ UNCHANGED <<unitVars, clientVars, now, netVars, op, req, started>>

\* time passes
Tick ==
    /\ now < MaxTime
    /\ now' = now + 1
    /\ UNCHANGED <<unitVars, heap, authVars, clientVars, netVars, op, pc, req, call, disp, started,
                   last, hist>>

\* the request inside the task of thread t
localRequest(t) == StampedRequests[timestamp_][req[t]]

\* an initiateSTKPush that fetches the token itself before it launches the
\* task: the caller waits for the mutex
InitiateSTKPush_Waits(t, r) ==
    /\ pc[t] \in {"idle", "done"}
    /\ started < MaxOps
    /\ CanLock
    /\ started' = started + 1
    /\ op' = [op EXCEPT ![t] = "initiateSTKPush"]
    /\ pc' = [pc EXCEPT ![t] = "validate"]
    /\ req' = [req EXCEPT ![t] = r]
    /\ disp' = [disp EXCEPT ![t] = NoDispatch]
    /\ UNCHANGED <<unitVars, heap, authVars, clientVars, now, netVars, call, last, hist>>

\* initiateSTKPush: the request is stamped and the task is launched (std::async)
InitiateSTKPush(t, r) ==
    /\ pc[t] \in {"idle", "done"}
    /\ started < MaxOps
    /\ started' = started + 1
    /\ op' = [op EXCEPT ![t] = "initiateSTKPush"]
    /\ pc' = [pc EXCEPT ![t] = "validate"]
    /\ req' = [req EXCEPT ![t] = r]
    /\ disp' = [disp EXCEPT ![t] = NoDispatch]
    /\ UNCHANGED <<unitVars, heap, authVars, clientVars, now, netVars, call, last, hist>>

\* validation fails and the task does not return
ValidationFails_GoesOn(t) ==
    /\ pc[t] = "validate"
    /\ ~Validations[timestamp_][req[t]].isValid
    /\ pc' = [pc EXCEPT ![t] = "auth_lock"]
    /\ call' = [call EXCEPT ![t] = EnterCall]
    /\ disp' = [disp EXCEPT
           ![t].steps = Append(@, "validate"),
           ![t].validated = <<localRequest(t)>>,
           ![t].result = Failure(Message(Validations[timestamp_][req[t]].error, "",
                                         <<>>, <<>>)),
           ![t].count = "F"]
    /\ UNCHANGED <<unitVars, heap, authVars, clientVars, now, netVars, op, req, started, last, hist>>

\* the task: validation fails
ValidationFails(t) ==
    /\ pc[t] = "validate"
    /\ ~Validations[timestamp_][req[t]].isValid
    /\ pc' = [pc EXCEPT ![t] = "count"]
    /\ disp' = [disp EXCEPT
           ![t].steps = Append(@, "validate"),
           ![t].validated = <<localRequest(t)>>,
           ![t].result = Failure(Message(Validations[timestamp_][req[t]].error, "",
                                         <<>>, <<>>)),
           ![t].count = "F"]
    /\ UNCHANGED <<unitVars, heap, authVars, clientVars, now, netVars, op, req, call, started, last,
                   hist>>

\* the task: validation passes and the CurlWrapper constructor throws
CurlWrapperFails(t) ==
    /\ pc[t] = "validate"
    /\ Validations[timestamp_][req[t]].isValid
    /\ pc' = [pc EXCEPT ![t] = "count"]
    /\ disp' = [disp EXCEPT
           ![t].steps = Append(@, "validate"),
           ![t].validated = <<localRequest(t)>>,
           ![t].result = RequestError("Failed to initialize CURL").result,
           ![t].count = RequestError("Failed to initialize CURL").count]
    /\ UNCHANGED <<unitVars, heap, authVars, clientVars, now, netVars, op, req, call, started, last,
                   hist>>

\* the task: validation passes, the handle is there, createStkPushAuthHeader
\* calls getAccessToken
ValidationPasses(t) ==
    /\ pc[t] = "validate"
    /\ Validations[timestamp_][req[t]].isValid
    /\ heap' = curl_easy_init(heap)
    /\ pc' = [pc EXCEPT ![t] = "auth_lock"]
    /\ call' = [call EXCEPT ![t] = EnterCall]
    /\ disp' = [disp EXCEPT ![t].steps = Append(@, "validate"),
                            ![t].validated = <<localRequest(t)>>,
                            ![t].curl = TRUE]
    /\ UNCHANGED <<unitVars, authVars, clientVars, now, netVars, op, req, started, last, hist>>

\* the task has the token: toJson().dump() throws
SerializeFails(t) ==
    /\ pc[t] = "post"
    /\ ~dump_ok(localRequest(t))
    /\ heap' = curl_slist_append(heap)
    /\ pc' = [pc EXCEPT ![t] = "count"]
    /\ disp' = [disp EXCEPT ![t].result = RequestError("type_error").result,
                            ![t].count = RequestError("type_error").count]
    /\ UNCHANGED <<unitVars, authVars, clientVars, now, netVars, op, req, call, started, last,
                   hist>>

\* a client that sends one POST for identical requests in flight
PostSend_Dedup(t) ==
    /\ pc[t] = "post"
    /\ dump_ok(localRequest(t))
    /\ heap' = curl_slist_append(heap)
    /\ postRequests' = IF \E u \in Threads \ {t} : /\ pc[u] \in {"post_perform", "count"}
                                                    /\ req[u] = req[t]
                                                    /\ disp[u].posts = 1
                       THEN postRequests ELSE postRequests + 1
    /\ pc' = [pc EXCEPT ![t] = "post_perform"]
    /\ disp' = [disp EXCEPT ![t].steps = Append(@, "post"), ![t].posts = @ + 1,
                            ![t].posted = <<localRequest(t)>>]
    /\ UNCHANGED <<unitVars, authVars, clientVars, now, authRequests, op, req, call, started,
                   last, hist>>

\* the task has the token: the POST goes to the payment endpoint
PostSend(t) ==
    /\ pc[t] = "post"
    /\ dump_ok(localRequest(t))
    /\ heap' = curl_slist_append(heap)
    /\ postRequests' = postRequests + 1
    /\ pc' = [pc EXCEPT ![t] = "post_perform"]
    /\ disp' = [disp EXCEPT ![t].steps = Append(@, "post"), ![t].posts = @ + 1,
                            ![t].posted = <<localRequest(t)>>]
    /\ UNCHANGED <<unitVars, authVars, clientVars, now, authRequests, op, req, call, started,
                   last, hist>>

\* curl_easy_perform returns: the response is classified
PostReceive(t, resp) ==
    /\ pc[t] = "post_perform"
    /\ heap' = curl_slist_free_all(heap)
    /\ pc' = [pc EXCEPT ![t] = "count"]
    /\ disp' = [disp EXCEPT ![t].result = classify(resp).result,
                            ![t].count = classify(resp).count]
    /\ UNCHANGED <<unitVars, authVars, clientVars, now, netVars, op, req, call, started, last,
                   hist>>

\* an increment that is a separate read and write: of two tasks that increment
\* at the same time one overwrites the other
fetch_add_Plain(t, counter) ==
    IF \E u \in Threads \ {t} : pc[u] = "count" THEN counter ELSE counter + 1

\* operator++ of std::atomic<int> by thread t: one indivisible
\* read-modify-write
fetch_add(t, counter) == counter + 1

\* the task increments the counter of its path and returns the Result
Count(t) ==
    /\ pc[t] = "count"
    /\ heap' = IF disp[t].curl THEN curl_easy_cleanup(heap) ELSE heap
    /\ IF disp[t].count = "S"
       THEN /\ successCount_' = fetch_add(t, successCount_)
            /\ failureCount_' = failureCount_
       ELSE /\ failureCount_' = fetch_add(t, failureCount_)
            /\ successCount_' = successCount_
    /\ pc' = [pc EXCEPT ![t] = "done"]
    /\ last' = [kind |-> "dispatch", call |-> NoReturn,
                disp |-> [req |-> req[t], steps |-> disp[t].steps,
                          tokenRet |-> disp[t].tokenRet,
                          tokenReqs |-> disp[t].tokenReqs,
                          bearer |-> disp[t].bearer, posts |-> disp[t].posts,
                          result |-> disp[t].result,
                          dS |-> successCount_' - successCount_,
                          dF |-> failureCount_' - failureCount_,
                          raced |-> \E u \in Threads \ {t} : pc[u] = "count",
                          validated |-> disp[t].validated,
                          posted |-> disp[t].posted]]
    /\ hist' = [hist EXCEPT
           !.succeeded = IF disp[t].result.success THEN @ + 1 ELSE @,
           !.failed = IF disp[t].result.success THEN @ ELSE @ + 1]
    /\ disp' = [disp EXCEPT ![t] = NoDispatch]
    /\ UNCHANGED <<unitVars, authVars, timestamp_, now, netVars, op, req, call, started>>

(***************************************************************************)
(* The specification.                                                      *)
(***************************************************************************)
\* Auth and STKPushClient after their constructors
Constructed ==
    /\ current_token_ = nullopt
    /\ token_expiry_ = Epoch
    /\ last_error_ = SUCCESS
    /\ token_mutex_ = NoThread
    /\ successCount_ = 0
    /\ failureCount_ = 0
    /\ timestamp_ \in Timestamps
    /\ now = 1
    /\ authRequests = 0
    /\ postRequests = 0
    /\ op = [t \in Threads |-> "none"]
    /\ pc = [t \in Threads |-> "idle"]
    /\ req = [t \in Threads |-> 0]
    /\ call = [t \in Threads |-> NoCall]
    /\ disp = [t \in Threads |-> NoDispatch]
    /\ started = 0
    /\ last = NoLast
    /\ hist = NoHist
    /\ heap = NoHeap

\* no function has been called on its own
NoUnit == <<>>

Init ==
    /\ Constructed
    /\ fn = "none" /\ arg = NoUnit /\ out = NoUnit

\* The dispatches run within one tick of the clock.  The answers of the token
\* endpoint met meanwhile: a token that lasts, one that is expired when the next
\* dispatch asks for it (expires_in 0), an expires_in that is no number, a
\* server error.
DispatchTokenResponses == {1, 4, 6, 24}

\* the answers of the payment endpoint met meanwhile: an acknowledgement, one
\* that lacks a key, text that is no JSON, HTTP 400 with an error body, HTTP
\* 500 without one, a transfer that fails
DispatchPostResponses == {1, 2, 4, 6, 8, 10}

Next ==
    \/ \E t \in Threads : \E r \in DOMAIN Requests : InitiateSTKPush(t, r)
    \/ \E t \in Threads : ValidationFails(t)
    \/ \E t \in Threads : CurlWrapperFails(t)
    \/ \E t \in Threads : ValidationPasses(t)
    \/ \E t \in Threads : ReturnCached(t)
    \/ \E t \in Threads : RefreshInitFails(t)
    \/ \E t \in Threads : RefreshSend(t)
    \/ \E t \in Threads : \E i \in DispatchTokenResponses :
          RefreshReceive(t, TokenResponses[i])
    \/ \E t \in Threads : SerializeFails(t)
    \/ \E t \in Threads : PostSend(t)
    \/ \E t \in Threads : \E i \in DispatchPostResponses :
          PostReceive(t, PostResponses[i])
    \/ \E t \in Threads : Count(t)

Spec == Init /\ [][Next]_vars

\* the steps the task of thread t takes once it is launched.  The transfer of
\* the POST ends by itself: setTimeouts puts CURLOPT_TIMEOUT and
\* CURLOPT_CONNECTTIMEOUT on its handle.  The handle of refreshToken gets the
\* URL, the headers and the write callback and no timeout, so that nothing
\* makes its curl_easy_perform return: RefreshReceive is not among the steps.
TaskStep(t) ==
    \/ ValidationFails(t) \/ CurlWrapperFails(t) \/ ValidationPasses(t)
    \/ ReturnCached(t) \/ RefreshInitFails(t) \/ RefreshSend(t)
    \/ SerializeFails(t) \/ PostSend(t)
    \/ \E i \in DispatchPostResponses : PostReceive(t, PostResponses[i])
    \/ Count(t)

\* the client under a scheduler that lets every launched task run
LiveSpec == Init /\ [][Next]_vars /\ \A t \in Threads : WF_vars(TaskStep(t))

\* ~STKPushClient: curl_global_cleanup, and nothing that waits for the tasks
\* the client launched.  The application destroys the client when it likes:
\* the std::future of a dispatch is in its hands, not in the client's.
STKPushClient_Destructor ==
    /\ heap.global
    /\ heap' = [heap EXCEPT !.global = FALSE]
    /\ UNCHANGED <<unitVars, authVars, clientVars, now, netVars, op, pc, req, call, disp,
                   started, last, hist>>

\* a task that runs on after the destructor touches the counters, the
\* timestamp and auth_ through a dangling this and libcurl after its global
\* cleanup: it may go on as if nothing had happened (the steps of the task),
\* or the process ends here
UseAfterDestroy(t) ==
    /\ ~heap.global
    /\ pc[t] \notin {"idle", "done", "aborted"}
    /\ pc' = [pc EXCEPT ![t] = "aborted"]
    /\ UNCHANGED <<unitVars, heap, authVars, clientVars, now, netVars, op, req, call, disp,
                   started, last, hist>>

\* the client from its construction to its destruction and beyond
LifetimeNext ==
    \/ \E t \in Threads : \E r \in DOMAIN Requests : heap.global /\ InitiateSTKPush(t, r)
    \/ \E t \in Threads : ValidationFails(t)
    \/ \E t \in Threads : CurlWrapperFails(t)
    \/ \E t \in Threads : ValidationPasses(t)
    \/ \E t \in Threads : ReturnCached(t)
    \/ \E t \in Threads : RefreshInitFails(t)
    \/ \E t \in Threads : RefreshSend(t)
    \/ \E t \in Threads : \E i \in DispatchTokenResponses :
          RefreshReceive(t, TokenResponses[i])
    \/ \E t \in Threads : SerializeFails(t)
    \/ \E t \in Threads : PostSend(t)
    \/ \E t \in Threads : \E i \in DispatchPostResponses :
          PostReceive(t, PostResponses[i])
    \/ \E t \in Threads : Count(t)
    \/ STKPushClient_Destructor
    \/ \E t \in Threads : UseAfterDestroy(t)

LifetimeSpec == Init /\ [][LifetimeNext]_vars

\* mpesa::Auth alone, called by the threads of an application
AuthNext ==
    \/ \E t \in Threads : CallGetAccessToken(t)
    \/ \E t \in Threads : ReturnCached(t)
    \/ \E t \in Threads : RefreshInitFails(t)
    \/ \E t \in Threads : RefreshSend(t)
    \/ \E t \in Threads : \E i \in DOMAIN TokenResponses :
          RefreshReceive(t, TokenResponses[i])
    \/ Tick

AuthSpec == Init /\ [][AuthNext]_vars

\* the values an unsynchronized read of last_error_ may give while the thread
\* that holds the mutex is in refreshToken: what is stored, or what that
\* refresh is about to store
RacingErrors ==
    {last_error_} \cup {refreshToken(TokenResponses[i]).last_error :
                            i \in DispatchTokenResponses}

\* a thread of the application that is in no call reads the last error:
\* getLastError returns last_error_ and takes no lock.  waited: another
\* thread was inside refreshToken, the mutex held, at the time of the read
GetLastError(t) ==
    /\ pc[t] \in {"idle", "done"}
    /\ started < MaxOps
    /\ started' = started + 1
    /\ \E read \in IF token_mutex_ # NoThread THEN RacingErrors ELSE {last_error_} :
          last' = [kind |-> "getLastError",
                   call |-> [NoReturn EXCEPT !.waited = token_mutex_ # NoThread,
                                             !.last_error = read],
                   disp |-> NoDone]
    /\ UNCHANGED <<unitVars, heap, authVars, clientVars, now, netVars, op, pc, req, call,
                   disp, hist>>

\* a thread of the application that is in no call asks isTokenValid, which
\* compares the clock with token_expiry_ and takes no lock; usable is its
\* result, either one while a refresh is writing the expiry
IsTokenValid(t) ==
    /\ pc[t] \in {"idle", "done"}
    /\ started < MaxOps
    /\ started' = started + 1
    /\ \E read \in IF token_mutex_ # NoThread THEN BOOLEAN ELSE {isTokenValid} :
          last' = [kind |-> "isTokenValid",
                   call |-> [NoReturn EXCEPT !.waited = token_mutex_ # NoThread,
                                             !.usable = read],
                   disp |-> NoDone]
    /\ UNCHANGED <<unitVars, heap, authVars, clientVars, now, netVars, op, pc, req, call,
                   disp, hist>>

\* mpesa::Auth shared by threads that call getAccessToken and the two readers
ReaderNext ==
    \/ \E t \in Threads : CallGetAccessToken(t)
    \/ \E t \in Threads : ReturnCached(t)
    \/ \E t \in Threads : RefreshInitFails(t)
    \/ \E t \in Threads : RefreshSend(t)
    \/ \E t \in Threads : \E i \in DispatchTokenResponses :
          RefreshReceive(t, TokenResponses[i])
    \/ \E t \in Threads : GetLastError(t)
    \/ \E t \in Threads : IsTokenValid(t)
    \/ Tick

ReaderSpec == Init /\ [][ReaderNext]_vars

(***************************************************************************)
(* The classification of the payment endpoint's answer.                    *)
(***************************************************************************)
\* bodies: text that is no JSON, an array, error bodies, and acknowledgements
\* with any of the five keys missing or holding a number or null
PostBodies ==
    {JInvalid, JArray, ErrorBody(JString(E400_008_02)), ErrorBody(JNumber(404)),
     JObject([k \in {"errorCode"} |-> JString(E400_008_02)])}
    \cup {JObject([k \in K |-> AckValue(k)]) : K \in SUBSET AckKeys}
    \cup {JObject([k \in AckKeys |-> IF k = odd THEN v ELSE AckValue(k)]) :
             odd \in AckKeys, v \in {JNumber(0), JNull}}

\* what curl_easy_perform may deliver to the task
PostInputs ==
    {Http(res, status, body) :
        res \in {"CURLE_OK", "CURLE_OPERATION_TIMEDOUT"},
        status \in {200, 302, 399, 400, 500},
        body \in PostBodies}

\* the task classifies the answer
ApplyClassify ==
    /\ fn = "classify" /\ out = NoUnit
    /\ out' = <<classify(arg)>>
    /\ UNCHANGED <<fn, arg, sdkVars>>

\* a request that passes validation: the first of Requests, stamped
ValidRequest == Stamp(Requests[1], generate(CHOOSE tm \in ConstructionTimes : TRUE))

\* requests that break any of the rules together: each field is right or wrong
RuleBreakers ==
    { [ValidRequest EXCEPT !.businessShortCode = sc, !.password = pw,
                           !.timestamp = ts, !.partyA = pa, !.phoneNumber = pn,
                           !.partyB = pb, !.callBackURL = cb, !.amount = am,
                           !.accountReference = ar, !.transactionDesc = td] :
        sc \in {ValidRequest.businessShortCode, <<"1", "7", "4", "3", "7", "9", "0">>},
        pw \in {ValidRequest.password, <<>>},
        ts \in {ValidRequest.timestamp, <<"2", "0", "2", "4", "1", "3", "0", "1", "0", "0", "0", "0", "0", "0">>},
        pa \in {ValidRequest.partyA, <<"2", "5", "4", "1", "1", "2", "3", "4", "5", "6", "7", "8">>},
        pn \in {ValidRequest.phoneNumber, <<"0", "7", "1", "2", "3", "4", "5", "6", "7", "8">>},
        pb \in {ValidRequest.partyB, <<"1", "7", "4", "3", "7", "9", "0">>},
        cb \in {ValidRequest.callBackURL, <<"h", "t", "t", "p", ":", "/", "/", "e", "x", "a", "m", "p", "l", "e", ".", "c", "o", "m", "/", "c", "b">>},
        am \in {ValidRequest.amount, <<"0">>},
        ar \in {ValidRequest.accountReference, <<>>},
        td \in {ValidRequest.transactionDesc, <<"P", "a", "y", "m", "e", "n", "t", " ", "o", "f", " ", "b", "i", "l", "l">>} }

\* texts for a phone field: the valid number with one character replaced, and
\* texts that are too short, too long, or written the local or the "+" way
PhoneTexts ==
    { [ValidRequest.partyA EXCEPT ![i] = c] :
        i \in DOMAIN ValidRequest.partyA, c \in {"0", "1", "7", "9", "a", "+", " "} }
    \cup { <<>>, SubSeq(ValidRequest.partyA, 1, 11), ValidRequest.partyA \o <<"0">>,
           <<"0", "7", "1", "2", "3", "4", "5", "6", "7", "8">>, <<"+", "2", "5", "4", "7", "1", "2", "3", "4", "5", "6", "7", "8">>, <<"7", "1", "2", "3", "4", "5", "6", "7", "8">> }

\* requests that are valid but for the payer or for the prompt phone
PhoneProbes ==
    { [ValidRequest EXCEPT !.partyA = p] : p \in PhoneTexts }
    \cup { [ValidRequest EXCEPT !.phoneNumber = p] : p \in PhoneTexts }

\* the longest short code tried
MaxShortCode == 7

\* texts for the short code: every text of digits and letters up to that
\* length over a small alphabet, and the codes of the documentation
ShortCodeTexts ==
    UNION { [1..n -> {"7", "a"}] : n \in 0..MaxShortCode }
    \cup { <<"1", "7", "4", "3", "7", "9">>, <<"1", "7", "4", "3", "7">>, <<"1", "7", "4", "3", "7", "9", "0">>, <<"1", "7", "4", "3", "7", " ">>, <<"-", "1", "7", "4", "3", "7">> }

\* requests that are valid but for the short code; the payee is the short code
ShortCodeProbes ==
    { [ValidRequest EXCEPT !.businessShortCode = s, !.partyB = s] : s \in ShortCodeTexts }

\* requests that are valid but for the callback URL, which is put together
\* from a scheme, a host and a path
UrlProbes ==
    { [ValidRequest EXCEPT !.callBackURL = sch \o host \o path] :
        sch \in { <<"h", "t", "t", "p", "s", ":", "/", "/">>,
                 <<"h", "t", "t", "p", ":", "/", "/">>,
                 <<"H", "T", "T", "P", "S", ":", "/", "/">>,
                 <<"f", "t", "p", ":", "/", "/">>,
                 <<"h", "t", "t", "p", "s", ":", "/">>,
                 <<>> },
        host \in { <<"e", "x", "a", "m", "p", "l", "e", ".", "c", "o", "m">>,
                  <<"e", "x", "a", "m", "p", "l", "e">>,
                  <<"a", ".", "b", ".", "c", "o">>,
                  <<"-", "b", "a", "d", ".", "c", "o", "m">>,
                  <<"b", "a", "d", "-", ".", "c", "o", "m">>,
                  <<"e", "x", "_", "a", "m", "p", "l", "e", ".", "c", "o", "m">>,
                  <<"e", "x", "a", "m", "p", "l", "e", ".", "c">>,
                  <<"e", "x", "a", "m", "p", "l", "e", ".", "c", "0", "m">>,
                  <<"e", "x", "a", "-", "m", "p", "l", "e", ".", "c", "o", "m">>,
                  <<"e", "x", "a", "m", "p", "l", "e", ".", ".", "c", "o", "m">>,
                  <<".", "c", "o", "m">>,
                  <<"1", "2", "7", ".", "0", ".", "0", ".", "1">>,
                  <<"e", "x", "a", "m", "p", "l", "e", ".", "c", "o", "m", ":", "8", "0", "8", "0">>,
                  <<"u", "@", "e", "x", "a", "m", "p", "l", "e", ".", "c", "o", "m">>,
                  <<>> },
        path \in { <<>>,
                  <<"/">>,
                  <<"/", "c", "b">>,
                  <<"/", "c", "b", "?", "x", "=", "1">>,
                  <<"/", "c", " ", "b">>,
                  <<"/", "<">>,
                  <<"?", "x", "=", "1">> } }

\* the task validates the request
ApplyValidate ==
    /\ fn = "validateSTKPushRequest" /\ out = NoUnit
    /\ out' = <<validateSTKPushRequest(arg)>>
    /\ UNCHANGED <<fn, arg, sdkVars>>

\* short codes, passkeys and timestamps the password is generated from: the
\* lengths of the concatenation cover the three remainders modulo 3, the bytes
\* go from 32 to 255
PasswordInputs ==
    { <<sc, pk, ts>> :
        sc \in { <<>>, <<"1", "7", "4", "3", "7", "9">>, <<"1", "7", "4", "3", "7">> },
        pk \in { <<>>, <<"b">>, <<"b", "f", "b", "2">>, <<"~", "k", " ", "/", "+">>, <<"xFF">>, <<"xFF", "xFF", " ">> },
        ts \in { <<>>, <<"2", "0", "2", "4", "0", "2", "2", "9", "2", "3", "5", "9", "5", "9">>, <<"1">> } }

\* generatePassword is called
ApplyGeneratePassword ==
    /\ fn = "generatePassword" /\ out = NoUnit
    /\ out' = <<generatePassword(arg[1], arg[2], arg[3])>>
    /\ UNCHANGED <<fn, arg, sdkVars>>

\* timestamps put together from fields at and around the limits, and the
\* valid timestamp cut short, made longer, or with one character replaced
TimestampInputs ==
    { yr \o mo \o dy \o hr \o mi \o se :
        yr \in { <<"0", "0", "0", "0">>, <<"2", "0", "2", "4">> },
        mo \in { <<"0", "0">>, <<"0", "1">>, <<"0", "2">>, <<"1", "2">>, <<"1", "3">> },
        dy \in { <<"0", "0">>, <<"0", "1">>, <<"2", "9">>, <<"3", "1">>, <<"3", "2">> },
        hr \in { <<"0", "0">>, <<"2", "3">>, <<"2", "4">> },
        mi \in { <<"0", "0">>, <<"5", "9">>, <<"6", "0">> },
        se \in { <<"0", "0">>, <<"5", "9">>, <<"6", "0">> } }
    \cup { [ValidRequest.timestamp EXCEPT ![i] = c] :
             i \in DOMAIN ValidRequest.timestamp, c \in {"a", " ", "-", "+", "xFF"} }
    \cup { <<>>, SubSeq(ValidRequest.timestamp, 1, 13), ValidRequest.timestamp \o <<"0">> }

\* the validator, or an application, checks a timestamp
ApplyIsValid ==
    /\ fn = "isValid" /\ out = NoUnit
    /\ out' = <<isValid(arg)>>
    /\ UNCHANGED <<fn, arg, sdkVars>>

\* the texts handed to formatPhoneNumber: those tried on the validator, and
\* numbers written with spaces, brackets and hyphens, too short and too long
FormatInputs ==
    PhoneTexts \cup { <<"1", "2", "3", "4", "5", "6", "7">>,
                     <<"0", "7", "1", "2", " ", "3", "4", "5", " ", "6", "7", "8">>,
                     <<"(", "0", "7", "1", "2", ")", " ", "3", "4", "5", "-", "6", "7", "8">>,
                     <<"2", "5", "4", "7", "1", "2", "3", "4", "5">>,
                     <<"0", "7", "1", "2", "3", "4", "5", "6", "7">>,
                     <<"+">>,
                     <<"2", "5", "4", "7", "1", "2", "3", "4", "5", "6", "7", "8", "9", "0">>,
                     <<"0", "2", "5", "4", "7", "1", "2", "3", "4", "5", "6", "7", "8">>,
                     <<"7", "1", "2", "-", "3", "4", "5", "-", "6", "7", "8">>,
                     <<"0", "0", "7", "1", "2", "3", "4", "5", "6", "7", "8">>,
                     <<"2", "5", "4", "0", "7", "1", "2", "3", "4", "5", "6", "7", "8">>,
                     <<"0", "1", "1", "2", "3", "4", "5", "6", "7", "8">> }

\* the application formats a phone number
ApplyFormatPhoneNumber ==
    /\ fn = "formatPhoneNumber" /\ out = NoUnit
    /\ out' = <<formatPhoneNumber(arg)>>
    /\ UNCHANGED <<fn, arg, sdkVars>>

\* a member left out of an object
Absent == JLeaf("absent", <<>>, 0)

\* the object with the members given as <<key, value>>, those Absent left out
Members(pairs) ==
    JObj([k \in {p[1] : p \in {x \in pairs : x[2] # Absent}} |->
             (CHOOSE p \in pairs : p[1] = k)[2]])

MetadataItem(name, value) == Members({<<"Name", name>>, <<"Value", value>>})

\* the callback body with the given members of stkCallback
CallbackBody(mid, cid, code, desc, meta) ==
    Members({<<"Body", Members({<<"stkCallback",
        Members({<<"MerchantRequestID", mid>>, <<"CheckoutRequestID", cid>>,
                 <<"ResultCode", code>>, <<"ResultDesc", desc>>,
                 <<"CallbackMetadata", meta>>})>>})>>})

\* items of a callback: amounts and receipts of every shape, values that are
\* null, boolean or an array, items without Name or Value, an item that is no
\* object
MetadataItems ==
    { MetadataItem(JLeaf("string", <<"A", "m", "o", "u", "n", "t">>, 0), JLeaf("number_float", <<>>, 100)),
      MetadataItem(JLeaf("string", <<"A", "m", "o", "u", "n", "t">>, 0), JLeaf("number_integer", <<>>, 10)),
      MetadataItem(JLeaf("string", <<"A", "m", "o", "u", "n", "t">>, 0), JLeaf("string", <<"1", "0">>, 0)),
      MetadataItem(JLeaf("string", <<"M", "p", "e", "s", "a", "R", "e", "c", "e", "i", "p", "t", "N", "u", "m", "b", "e", "r">>, 0), JLeaf("string", <<"N", "L", "J", "7", "R", "T", "6", "1", "S", "V">>, 0)),
      MetadataItem(JLeaf("string", <<"M", "p", "e", "s", "a", "R", "e", "c", "e", "i", "p", "t", "N", "u", "m", "b", "e", "r">>, 0), JLeaf("number_integer", <<>>, 5)),
      MetadataItem(JLeaf("string", <<"T", "r", "a", "n", "s", "a", "c", "t", "i", "o", "n", "D", "a", "t", "e">>, 0), JWide("number_integer", 4701, 577843619)),
      MetadataItem(JLeaf("string", <<"B", "a", "l", "a", "n", "c", "e">>, 0), Absent),
      MetadataItem(Absent, JLeaf("number_integer", <<>>, 1)),
      MetadataItem(JLeaf("number_integer", <<>>, 5), JLeaf("number_integer", <<>>, 1)),
      MetadataItem(JLeaf("string", <<"B", "a", "l", "a", "n", "c", "e">>, 0), JLeaf("null", <<>>, 0)),
      MetadataItem(JLeaf("string", <<"B", "a", "l", "a", "n", "c", "e">>, 0), JLeaf("boolean", <<>>, 1)),
      MetadataItem(JLeaf("string", <<"B", "a", "l", "a", "n", "c", "e">>, 0), JList(<<>>)),
      JLeaf("string", <<"A", "m", "o", "u", "n", "t">>, 0) }

\* the longest list of items tried
MaxItems == 2

\* callback bodies: texts that are no JSON or do not lead to stkCallback;
\* every required member right, missing or of the wrong type, with result
\* codes known, unknown, too large for int, fractional, boolean and text;
\* metadata of every shape
CallbackBodies ==
    { JLeaf("discarded", <<>>, 0), JList(<<>>), JLeaf("string", <<"t", "e", "x", "t">>, 0), JLeaf("null", <<>>, 0),
      Members({}), Members({<<"Body", JLeaf("string", <<"t", "e", "x", "t">>, 0)>>}), Members({<<"Body", Members({})>>}),
      Members({<<"Body", Members({<<"stkCallback", JList(<<>>)>>})>>}),
      Members({<<"Body", Members({<<"stkCallback", JLeaf("null", <<>>, 0)>>})>>}) }
    \cup { CallbackBody(mid, cid, code, desc, Absent) :
             mid \in {JLeaf("string", <<"m", "1">>, 0), Absent, JLeaf("number_integer", <<>>, 7)},
             cid \in {JLeaf("string", <<"c", "1">>, 0), Absent, JLeaf("number_integer", <<>>, 7)},
             code \in {JLeaf("number_integer", <<>>, 0), JLeaf("number_integer", <<>>, 1032), JLeaf("number_integer", <<>>, 17), JLeaf("number_integer", <<>>, -1), JWide("number_integer", 1, 0),
                       JWide("number_integer", 1, 1),
                       JWide("number_float", 1, 5), JLeaf("number_float", <<>>, 15), JLeaf("boolean", <<>>, 1), Absent, JLeaf("string", <<"0">>, 0)},
             desc \in {JLeaf("string", <<"o", "k">>, 0), Absent, JLeaf("null", <<>>, 0)} }
    \cup { CallbackBody(JLeaf("string", <<"m", "1">>, 0), JLeaf("string", <<"c", "1">>, 0), JLeaf("number_integer", <<>>, 0), JLeaf("string", <<"o", "k">>, 0), meta) :
             meta \in {JLeaf("null", <<>>, 0), JLeaf("number_integer", <<>>, 3), Members({})}
                      \cup {Members({<<"Item", x>>}) : x \in {JLeaf("null", <<>>, 0), JLeaf("string", <<"t", "e", "x", "t">>, 0), Members({})}}
                      \cup {Members({<<"Item", JList(items)>>}) :
                              items \in UNION {[1..n -> MetadataItems] : n \in 0..MaxItems}} }

\* the application parses a callback; the read of a key an item does not have
\* ends in an abort (the assertion of the library) or, the assertion compiled
\* out, in whatever the memory read gives: here the exception of a conversion
ApplyParseCallback ==
    /\ fn = "parseCallback" /\ out = NoUnit
    /\ out' \in { <<o>> : o \in IF parseCallback(arg).kind = "undefined"
                               THEN {[NoCallback EXCEPT !.kind = "abort"], NoCallback}
                               ELSE {parseCallback(arg)} }
    /\ UNCHANGED <<fn, arg, sdkVars>>

\* responses handed to map_mpesa_error: the bodies of the token endpoint, and
\* error codes that are empty, cut short, extended, or no text
ErrorResponses ==
    { TokenResponses[i].body : i \in {j \in DOMAIN TokenResponses :
                                         parse_ok(TokenResponses[j].body)} }
    \cup { ErrorBody(JString(code)) :
             code \in {<<>>, <<"0">>, SubSeq(E400_008_02, 1, 9), E400_008_02 \o <<"1">>,
                       <<" ">> \o E401_002_01, SubSeq(E500_001_1001, 1, 10)} }
    \cup { ErrorBody(JNull), JObject([k \in {"errorCode"} |-> JString(E400_008_01)]),
           JObject([k \in {"errorMessage"} |-> JString(E400_008_01)]) }

\* the application maps a response; a type_error leaves map_mpesa_error
ApplyMapMpesaError ==
    /\ fn = "map_mpesa_error" /\ out = NoUnit
    /\ out' = <<IF map_mpesa_error_throws(arg)
                THEN [thrown |-> "type_error", code |-> SUCCESS]
                ELSE [thrown |-> "", code |-> map_mpesa_error(arg)]>>
    /\ UNCHANGED <<fn, arg, sdkVars>>

\* AuthConfig::from_env on the environment env, which gives for each of the
\* four variables <<>> (std::getenv returns null) or <<its text>>: the
\* AuthConfig, or AuthenticationError with CONFIG_ERROR
from_env(env) ==
    IF \/ env.MPESA_CONSUMER_KEY = <<>> \/ env.MPESA_CONSUMER_SECRET = <<>>
       \/ env.MPESA_STK_PASSKEY = <<>>
    THEN [thrown |-> "AuthenticationError", code |-> CONFIG_ERROR,
          config |-> [consumer_key |-> <<>>, consumer_secret |-> <<>>,
                      sandbox |-> TRUE, stk_passkey |-> <<>>]]
    ELSE [thrown |-> "", code |-> SUCCESS,
          config |-> [consumer_key |-> env.MPESA_CONSUMER_KEY[1],
                      consumer_secret |-> env.MPESA_CONSUMER_SECRET[1],
                      sandbox |-> ~(/\ env.MPESA_ENVIRONMENT # <<>>
                                    /\ \/ env.MPESA_ENVIRONMENT[1] = <<"p", "r", "o", "d", "u", "c", "t", "i", "o", "n">>
                                       \/ env.MPESA_ENVIRONMENT[1] = <<"P", "R", "O", "D", "U", "C", "T", "I", "O", "N">>),
                      stk_passkey |-> env.MPESA_STK_PASSKEY[1]]]

\* environments: each credential unset, empty or set; MPESA_ENVIRONMENT unset,
\* "production" in several spellings, and other texts
Environments ==
    [MPESA_CONSUMER_KEY : {<<>>, <<<<>>>>, <<AuthConfig.consumer_key>>},
     MPESA_CONSUMER_SECRET : {<<>>, <<<<>>>>, <<AuthConfig.consumer_secret>>},
     MPESA_STK_PASSKEY : {<<>>, <<<<>>>>, <<AuthConfig.stk_passkey>>},
     MPESA_ENVIRONMENT : {<<>>, <<<<"p", "r", "o", "d", "u", "c", "t", "i", "o", "n">>>>,
                          <<<<"P", "R", "O", "D", "U", "C", "T", "I", "O", "N">>>>,
                          <<<<"P", "r", "o", "d", "u", "c", "t", "i", "o", "n">>>>,
                          <<<<"p", "R", "O", "D", "U", "C", "T", "I", "O", "N">>>>,
                          <<<<"s", "a", "n", "d", "b", "o", "x">>>>,
                          <<<<>>>>,
                          <<<<"p", "r", "o", "d", "u", "c", "t", "i", "o">>>>,
                          <<<<"p", "r", "o", "d", "u", "c", "t", "i", "o", "n", " ">>>>}]

\* the application loads its configuration from the environment
ApplyFromEnv ==
    /\ fn = "from_env" /\ out = NoUnit
    /\ out' = <<from_env(arg)>>
    /\ UNCHANGED <<fn, arg, sdkVars>>

(***************************************************************************)
(* The functions of the SDK called on their own, each on one argument.     *)
(***************************************************************************)
UnitInit ==
    /\ Constructed
    /\ out = NoUnit
    /\ \/ fn = "classify" /\ arg \in PostInputs
       \/ fn = "validateSTKPushRequest" /\ arg \in RuleBreakers \cup PhoneProbes \cup ShortCodeProbes \cup UrlProbes
                   \cup {[r EXCEPT !.transactionType = "CustomerBuyGoodsOnline"] :
                           r \in RuleBreakers}
       \/ fn = "generatePassword" /\ arg \in PasswordInputs
       \/ fn = "isValid" /\ arg \in TimestampInputs
       \/ fn = "formatPhoneNumber" /\ arg \in FormatInputs
       \/ fn = "parseCallback" /\ arg \in CallbackBodies
       \/ fn = "map_mpesa_error" /\ arg \in ErrorResponses
       \/ fn = "from_env" /\ arg \in Environments

UnitNext ==
    \/ ApplyClassify
    \/ ApplyValidate
    \/ ApplyGeneratePassword
    \/ ApplyIsValid
    \/ ApplyFormatPhoneNumber
    \/ ApplyParseCallback
    \/ ApplyMapMpesaError
    \/ ApplyFromEnv

UnitSpec == UnitInit /\ [][UnitNext]_vars

(***************************************************************************)
(* Properties of mpesa::Auth, checked under AuthSpec.                      *)
(***************************************************************************)
\* a getAccessToken call of the application has just ended
CallEnded == last.kind = "call"

\* C1: a getAccessToken call that finds a cached token with the time strictly
\* before its expiry returns that cached token and sends nothing to the token
\* endpoint; so, as long as the expiry of the first token fetched is ahead, the
\* token endpoint has received at most one request in total.
C1_TokenReuse ==
    /\ CallEnded /\ last.call.entryUsable =>
          /\ last.call.ret = "token"
          /\ last.call.cached
          /\ last.call.reqs = 0
    /\ hist.firstOk /\ now < hist.firstExpiry => authRequests <= 1

\* a call has been answered from the cache
C1_Reused ==
    /\ CallEnded /\ last.call.entryUsable /\ last.call.ret = "token"
    /\ hist.returned >= 2 /\ authRequests = 1

\* C2, as stated: a getAccessToken call that finds no token, or a token with
\* the time at or after its expiry, sends exactly one request to the token
\* endpoint before it returns or fails, never none and never two.
C2_ExactlyOneRequest ==
    CallEnded /\ ~last.call.entryUsable => last.call.reqs = 1

\* C2, amended: such a call sends at most one request to the token endpoint;
\* it sends none exactly when the transfer handle cannot be initialized, and
\* then it fails with AuthenticationError(INITIALIZATION_ERROR).
C2_AtMostOneRequest ==
    CallEnded /\ ~last.call.entryUsable =>
        /\ last.call.reqs <= 1
        /\ last.call.reqs = 0 <=>
              /\ last.call.ret = "AuthenticationError"
              /\ last.call.code = INITIALIZATION_ERROR

\* a call made at the very instant of the expiry has refreshed the token
C2_RefreshedAtExpiry ==
    /\ CallEnded /\ last.call.entryAtExpiry /\ ~last.call.entryUsable
    /\ last.call.reqs = 1 /\ last.call.ret = "token"

\* C3: two refreshes are never in flight at once, the one in flight being that
\* of the holder of the mutex; and when the first refresh succeeded and its
\* expiry is still ahead, the token endpoint has received exactly one request
\* and every call that has returned, those that had to wait included, returned
\* the token of that refresh.
C3_SerializedRefresh ==
    /\ \A t, u \in Threads :
          pc[t] = "auth_perform" /\ pc[u] = "auth_perform" => t = u
    /\ \A t \in Threads : pc[t] = "auth_perform" <=> token_mutex_ = t
    /\ hist.firstOk /\ now < hist.firstExpiry =>
          /\ authRequests = 1
          /\ ~hist.odd

\* callers that met the mutex held have returned the token of the one refresh
C3_Contended ==
    /\ hist.firstOk /\ now < hist.firstExpiry
    /\ hist.contended /\ hist.returned >= NThreads
    /\ authRequests = 1 /\ ~hist.odd

\* C4: a token returned by getAccessToken is usable at the moment of the
\* return: the cache holds a token and the time is strictly before the expiry.
C4_UsableAtReturn ==
    CallEnded /\ last.call.ret = "token" => last.call.usable

\* C5: a getAccessToken call that fails leaves the cached token and the expiry
\* as it found them.
C5_FailureKeepsToken ==
    CallEnded /\ last.call.ret # "token" => last.call.kept

\* a refresh has failed at the token endpoint while a token was cached
C5_FailedWithToken ==
    /\ CallEnded /\ last.call.ret # "token"
    /\ last.call.entryHeld /\ last.call.reqs = 1 /\ last.call.kept

\* C6: a getAccessToken call that returns no token fails with an
\* AuthenticationError whose code is an error of the taxonomy, and last_error_
\* is that code afterwards; after a refresh that succeeded last_error_ is
\* SUCCESS.
C6_FailureIsAuthenticationError ==
    CallEnded =>
        IF last.call.ret = "token"
        THEN last.call.reqs = 1 => last.call.last_error = SUCCESS
        ELSE /\ last.call.ret = "AuthenticationError"
             /\ last.call.code \in AuthErrorCode \ {SUCCESS}
             /\ last.call.last_error = last.call.code

(***************************************************************************)
(* Properties of STKPushClient, checked under Spec.                        *)
(***************************************************************************)
\* a dispatch has just ended
DispatchEnded == last.kind = "dispatch"

\* the order of the steps of a dispatch
StepOrder == <<"validate", "token", "post">>

IsPrefix(s, r) == Len(s) <= Len(r) /\ \A i \in DOMAIN s : s[i] = r[i]

\* C7: when the validation of the stamped request fails, the dispatch returns
\* a failure Result whose message is the error of the validator, failureCount_
\* goes up by one, successCount_ stays, and the dispatch contacts neither the
\* token endpoint nor the payment endpoint.
C7_ValidationFailure ==
    DispatchEnded /\ ~Validations[timestamp_][last.disp.req].isValid =>
        /\ ~last.disp.result.success
        /\ last.disp.result.error =
              Message(Validations[timestamp_][last.disp.req].error, "", <<>>, <<>>)
        /\ last.disp.dF = 1 /\ last.disp.dS = 0
        /\ last.disp.steps = <<"validate">>
        /\ last.disp.tokenRet = "" /\ last.disp.tokenReqs = 0
        /\ last.disp.posts = 0

\* a dispatch of a request that does not validate has ended
C7_Rejected ==
    /\ DispatchEnded /\ ~Validations[timestamp_][last.disp.req].isValid
    /\ last.disp.dF = 1 /\ failureCount_ >= 1

\* C8: a dispatch that ends has moved exactly one counter, by one:
\* successCount_ if its Result is a success, failureCount_ otherwise; the sum
\* of the counters is the number of dispatches ended; no step lowers a counter.
C8_OneCounterPerDispatch ==
    /\ [](/\ DispatchEnded =>
                /\ last.disp.dS \in {0, 1} /\ last.disp.dF \in {0, 1}
                /\ last.disp.dS + last.disp.dF = 1
                /\ last.disp.dS = 1 <=> last.disp.result.success
          /\ successCount_ + failureCount_ = hist.succeeded + hist.failed)
    /\ [][successCount_' >= successCount_ /\ failureCount_' >= failureCount_]_vars

\* dispatches have ended on a path that throws, and with a success
C8_BothCounted ==
    /\ DispatchEnded /\ last.disp.tokenRet = "std::invalid_argument"
    /\ last.disp.dF = 1
    /\ successCount_ >= 1 /\ failureCount_ >= 1

\* C9: each counter equals the number of dispatches that ended with its kind
\* of Result, whatever the interleaving: N dispatches that all succeed leave
\* successCount_ at N and failureCount_ where it was.
C9_NoLostUpdate ==
    /\ successCount_ = hist.succeeded
    /\ failureCount_ = hist.failed

\* of the tasks that are to increment successCount_ at the same time one has
\* done so, no dispatch having failed
C9_Concurrent ==
    /\ DispatchEnded /\ last.disp.raced /\ last.disp.result.success
    /\ \E t \in Threads : pc[t] = "count" /\ disp[t].count = "S"
    /\ hist.failed = 0 /\ successCount_ = hist.succeeded /\ failureCount_ = 0

\* C10: the steps of a dispatch are a beginning of validate, token, POST; a
\* dispatch POSTs at most once, and only after its validation passed and its
\* getAccessToken call returned a token; when that call fails the dispatch
\* ends with a failure Result and no POST.
C10_StepOrder ==
    /\ \A t \in Threads :
          /\ IsPrefix(disp[t].steps, StepOrder)
          /\ disp[t].posts <= 1
          /\ disp[t].posts = 1 =>
                /\ Validations[timestamp_][req[t]].isValid
                /\ disp[t].tokenRet = "token"
    /\ DispatchEnded =>
          /\ IsPrefix(last.disp.steps, StepOrder)
          /\ last.disp.posts <= 1
          /\ last.disp.posts = 1 =>
                /\ Validations[timestamp_][last.disp.req].isValid
                /\ last.disp.tokenRet = "token"
          /\ last.disp.tokenRet \notin {"", "token"} =>
                /\ ~last.disp.result.success
                /\ last.disp.posts = 0

\* a dispatch whose getAccessToken call failed has ended
C10_TokenFailed ==
    /\ DispatchEnded /\ last.disp.tokenRet = "AuthenticationError"
    /\ last.disp.steps = <<"validate", "token">>
    /\ ~last.disp.result.success /\ last.disp.posts = 0

\* C11: the Result is a success exactly when the transfer succeeded, the HTTP
\* status is below 400 and the body is a JSON object that holds each of the
\* five acknowledgement keys as text; the five fields of the acknowledgement
\* returned are then those of the body; a failure carries no acknowledgement
\* field.
C11_SuccessIffAcknowledged ==
    fn = "classify" /\ out # NoUnit =>
        LET body == arg.body
            acknowledged ==
                /\ arg.res = "CURLE_OK"
                /\ arg.http_code < 400
                /\ body.kind = "object"
                /\ \A k \in {"MerchantRequestID", "CheckoutRequestID", "ResponseCode",
                             "ResponseDescription", "CustomerMessage"} :
                      k \in DOMAIN body.fields /\ body.fields[k].jt = "string"
        IN  /\ out[1].result.success <=> acknowledged
            /\ out[1].count = "S" <=> acknowledged
            /\ acknowledged =>
                  /\ out[1].result.value.merchantRequestID =
                        body.fields["MerchantRequestID"].s
                  /\ out[1].result.value.checkoutRequestID =
                        body.fields["CheckoutRequestID"].s
                  /\ out[1].result.value.responseCode = body.fields["ResponseCode"].s
                  /\ out[1].result.value.responseDescription =
                        body.fields["ResponseDescription"].s
                  /\ out[1].result.value.customerMessage =
                        body.fields["CustomerMessage"].s
            /\ ~acknowledged => out[1].result.value = NoAck

\* an answer with status 200 that lacks one of the five keys has been
\* classified as a failure
C11_PartialRejected ==
    /\ fn = "classify" /\ out # NoUnit /\ arg.res = "CURLE_OK" /\ arg.http_code = 200
    /\ arg.body.kind = "object"
    /\ DOMAIN arg.body.fields = AckKeys \ {"CustomerMessage"}
    /\ ~out[1].result.success /\ out[1].result.value = NoAck

\* the passwords of Requests under the passkey of AuthConfig and the
\* timestamp of the construction, as standard Base64 gives them
ExpectedPasswords ==
    << <<"M", "T", "c", "0", "M", "z", "c", "5", "Y", "m", "Z", "i", "M", "j", "I", "w",
         "M", "j", "Q", "w", "M", "j", "I", "5", "M", "j", "M", "1", "O", "T", "U", "5">>,
       <<"M", "T", "c", "0", "M", "z", "c", "5", "M", "G", "J", "m", "Y", "j", "I", "y",
         "M", "D", "I", "0", "M", "D", "I", "y", "O", "T", "I", "z", "N", "T", "k", "1",
         "O", "Q", "=", "=">>,
       <<"M", "T", "c", "0", "M", "z", "d", "i", "Z", "m", "I", "y", "M", "j", "A", "y",
         "N", "D", "A", "y", "M", "j", "k", "y", "M", "z", "U", "5", "N", "T", "k", "=">> >>

\* request r as it must leave the stamping: the caller's fields, the timestamp
\* of the construction and the password derived from it
Derived(r) ==
    [Requests[r] EXCEPT
        !.timestamp = <<"2", "0", "2", "4", "0", "2", "2", "9", "2", "3", "5", "9",
                        "5", "9">>,
        !.password = ExpectedPasswords[r]]

\* C12: the client's timestamp is the one taken at its construction and never
\* changes; the request a dispatch hands to the validator and the request it
\* serializes for the POST are the caller's request with that timestamp and
\* with the password base64(businessShortCode + passkey + timestamp), whatever
\* password and timestamp the caller supplied.
C12_DerivedCredentials ==
    /\ timestamp_ = <<"2", "0", "2", "4", "0", "2", "2", "9", "2", "3", "5", "9", "5", "9">>
    /\ \A t \in Threads :
          /\ disp[t].steps = <<>> => disp[t].validated = <<>>
          /\ disp[t].steps # <<>> => disp[t].validated = <<Derived(req[t])>>
          /\ disp[t].posts = 0 => disp[t].posted = <<>>
          /\ disp[t].posts > 0 => disp[t].posted = <<Derived(req[t])>>
    /\ DispatchEnded =>
          /\ last.disp.validated = <<Derived(last.disp.req)>>
          /\ last.disp.posted \in {<<>>, <<Derived(last.disp.req)>>}
          /\ last.disp.posts > 0 => last.disp.posted # <<>>

\* a request in which the caller had put a password and a timestamp has been
\* validated and posted
C12_CallerValuesReplaced ==
    /\ DispatchEnded /\ last.disp.posts = 1
    /\ Requests[last.disp.req].password = <<"p", "w">>
    /\ Requests[last.disp.req].timestamp = <<"1", "9", "9", "9">>
    /\ last.disp.posted = <<Derived(last.disp.req)>>
    /\ last.disp.posted[1].password # <<"p", "w">>

\* C13: initiateSTKPush returns its handle without waiting for anything: as
\* long as a task can be started the call can complete, whoever holds the
\* mutex of the Auth and whatever exchanges are under way; and when it has
\* returned, the dispatch has not validated, asked for the token or posted yet:
\* those steps are the task's.
C13_CallerNotBlocked ==
    \A t \in Threads :
        /\ pc[t] \in {"idle", "done"} /\ started < MaxOps =>
              ENABLED (\E r \in DOMAIN Requests : InitiateSTKPush(t, r))
        /\ pc[t] = "validate" =>
              /\ disp[t] = NoDispatch
              /\ call[t] = NoCall
              /\ token_mutex_ # t

\* initiateSTKPush has returned while the task of another dispatch holds the
\* mutex of the Auth and waits for the token endpoint
C13_LaunchedDuringRefresh ==
    \E t, u \in Threads :
        /\ pc[t] = "validate" /\ disp[t] = NoDispatch
        /\ op[u] = "initiateSTKPush" /\ pc[u] = "auth_perform" /\ token_mutex_ = u

\* C14: when no call and no dispatch is under way, no libcurl object is
\* alive: every easy handle and every header list acquired by a refresh or by a
\* dispatch has been released, whichever way the operation ended.
C14_ResourcesReleased ==
    (\A t \in Threads : pc[t] \in {"idle", "done"}) => heap = NoHeap

\* every thread has dispatched the same valid request, the dispatches ran at
\* the same time, each had its CurlWrapper, and each is about to return
ConcurrentIdentical ==
    \A t \in Threads :
        /\ op[t] = "initiateSTKPush" /\ req[t] = 1
        /\ pc[t] = "count" /\ disp[t].curl

\* C15: nothing is deduplicated: of N identical dispatches run at the same
\* time every one that has the token has sent one POST of its own; and if the
\* Auth had no token and the first answer of the token endpoint was a token not
\* expired since, that one token request served all N: N POSTs, each with that
\* token as bearer.
C15_NoDeduplication ==
    ConcurrentIdentical =>
        /\ postRequests = Cardinality({t \in Threads : disp[t].tokenRet = "token"})
        /\ \A t \in Threads : disp[t].posts = IF disp[t].tokenRet = "token" THEN 1 ELSE 0
        /\ hist.firstOk /\ now < hist.firstExpiry =>
              /\ authRequests = 1
              /\ postRequests = NThreads
              /\ \A t \in Threads : disp[t].bearer = Some(hist.firstToken)

\* N identical dispatches at the same time, one token request, N POSTs
C15_OneTokenManyPosts ==
    /\ ConcurrentIdentical
    /\ hist.firstOk /\ now < hist.firstExpiry
    /\ authRequests = 1
    /\ postRequests = NThreads
    /\ NThreads > 1

(***************************************************************************)
(* Properties of Validator::validateSTKPushRequest, checked under UnitSpec.*)
(***************************************************************************)
Validated == fn = "validateSTKPushRequest" /\ out # NoUnit

\* the rules in their order, and the message of each
RuleViolated(i, r) ==
    CASE i = 1 -> ~business_short_code_regex(r.businessShortCode)
      [] i = 2 -> r.password = <<>>
      [] i = 3 -> ~isValid(r.timestamp)
      [] i = 4 -> ~phone_regex(r.partyA)
      [] i = 5 -> ~phone_regex(r.phoneNumber)
      [] i = 6 -> r.partyB # r.businessShortCode
      [] i = 7 -> ~url_regex(r.callBackURL)
      [] i = 8 -> ~amount_regex(r.amount)
      [] i = 9 -> Len(r.accountReference) \notin 1..12
      [] i = 10 -> Len(r.transactionDesc) \notin 1..13

RuleMessage ==
    << "Invalid BusinessShortCode format",
       "Password cannot be empty",
       "Invalid timestamp format",
       "Invalid PartyA phone number format. Must be 12 digits starting with 2547",
       "Invalid phone number format. Must be 12 digits starting with 2547",
       "PartyB must match BusinessShortCode for PayBill transactions",
       "Invalid callback URL format. Must be HTTPS with valid domain",
       "Amount must be a positive number",
       "AccountReference must not be empty and cannot exceed 12 characters",
       "TransactionDesc must not be empty and cannot exceed 13 characters" >>

ViolatedRules(r) == {i \in DOMAIN RuleMessage : RuleViolated(i, r)}

\* C16: the validator answers Ok exactly when no rule is violated, and
\* otherwise with the message of the earliest violated rule in the order short
\* code, password, timestamp, payer phone, prompt phone, payee, callback URL,
\* amount, account reference, transaction description.
C16_EarliestViolation ==
    Validated =>
        LET v == ViolatedRules(arg)
        IN  IF v = {} THEN out[1] = ValidationSuccess
            ELSE out[1] = ValidationFailure(
                     RuleMessage[CHOOSE i \in v : \A j \in v : i <= j])

\* a request that violates the callback URL rule and later ones, but no
\* earlier one, has been validated
C16_SeveralViolated ==
    /\ Validated
    /\ ViolatedRules(arg) = {7, 8, 10}
    /\ out[1].error = RuleMessage[7]

\* 254, then nine digits
Is254Plus9(s) ==
    /\ Len(s) = 12
    /\ SubSeq(s, 1, 3) = <<"2", "5", "4">>
    /\ AllDigits(s)

\* C17: a request that violates no rule other than the phone rules passes
\* exactly when its payer phone and its prompt phone are each "254" followed by
\* nine digits.
C17_PhoneRule ==
    Validated /\ ViolatedRules(arg) \subseteq {4, 5} =>
        (out[1].isValid <=> Is254Plus9(arg.partyA) /\ Is254Plus9(arg.phoneNumber))

\* C18: a request that violates no rule other than the short code's passes
\* exactly when its short code is five or six characters long and every
\* character is a decimal digit; when it fails, the error message is not empty.
C18_ShortCodeRule ==
    Validated /\ ViolatedRules(arg) \subseteq {1} =>
        /\ out[1].isValid <=>
              /\ Len(arg.businessShortCode) \in {5, 6}
              /\ \A i \in DOMAIN arg.businessShortCode : arg.businessShortCode[i] \in Digits
        /\ ~out[1].isValid => out[1].error # ""

\* the short code of seven digits has been refused, the codes of five and six
\* digits are accepted
C18_SevenDigitsRefused ==
    /\ Validated
    /\ arg.businessShortCode = <<"1", "7", "4", "3", "7", "9", "0">>
    /\ ViolatedRules(arg) = {1}
    /\ ~out[1].isValid /\ out[1].error # ""
    /\ validateSTKPushRequest(
           [arg EXCEPT !.businessShortCode = <<"1", "7", "4", "3", "7", "9">>,
                       !.partyB = <<"1", "7", "4", "3", "7", "9">>]).isValid
    /\ validateSTKPushRequest(
           [arg EXCEPT !.businessShortCode = <<"1", "7", "4", "3", "7">>,
                       !.partyB = <<"1", "7", "4", "3", "7">>]).isValid

\* two or more parts separated by dots, each of letters, digits and hyphens,
\* not empty, no hyphen at either end
DottedDomain(h) ==
    LET parts == Split(h, ".")
    IN  /\ Len(parts) >= 2
        /\ \A i \in DOMAIN parts :
              /\ parts[i] # <<>>
              /\ \A j \in DOMAIN parts[i] : isalnum(parts[i][j]) \/ parts[i][j] = "-"
              /\ parts[i][1] # "-" /\ parts[i][Len(parts[i])] # "-"

\* C19: a request passes the callback URL rule only if the URL starts with
\* "https://", its host is a dotted domain name and a path starting with "/"
\* follows the host; "https://example.com" and plain http are refused.
C19_CallbackUrlRule ==
    Validated =>
        /\ out[1].isValid =>
              /\ Len(arg.callBackURL) >= 8
              /\ SubSeq(arg.callBackURL, 1, 8) = <<"h", "t", "t", "p", "s", ":", "/", "/">>
              /\ LET slash == Find(arg.callBackURL, "/", 9)
                 IN  /\ DottedDomain(SubSeq(arg.callBackURL, 9, slash - 1))
                     /\ slash <= Len(arg.callBackURL)
        /\ arg.callBackURL \in { <<"h", "t", "t", "p", "s", ":", "/", "/", "e", "x", "a", "m", "p", "l", "e", ".", "c", "o", "m">>,
                                 <<"h", "t", "t", "p", ":", "/", "/", "e", "x", "a", "m", "p", "l", "e", ".", "c", "o", "m", "/", "c", "b">> } =>
              /\ ~out[1].isValid
              /\ ViolatedRules(arg) = {7} => out[1] = ValidationFailure(RuleMessage[7])

\* the URL without a path has been refused, and the same URL with a path passes
C19_NoPathRefused ==
    /\ Validated
    /\ arg.callBackURL = <<"h", "t", "t", "p", "s", ":", "/", "/", "e", "x", "a", "m", "p", "l", "e", ".", "c", "o", "m">>
    /\ ViolatedRules(arg) = {7}
    /\ ~out[1].isValid
    /\ validateSTKPushRequest([arg EXCEPT !.callBackURL = @ \o <<"/">>]).isValid

(***************************************************************************)
(* Properties of STKPushClient::generatePassword, checked under UnitSpec.  *)
(***************************************************************************)
\* the value of a Base64 character
Base64Value(c) == (CHOOSE v \in DOMAIN Base64Alphabet : Base64Alphabet[v] = c) - 1

\* the bytes a Base64 text stands for: four characters give three bytes, or
\* two or one before "=" padding
RECURSIVE Base64Decode(_)
Base64Decode(t) ==
    IF t = <<>> THEN <<>>
    ELSE LET a == Base64Value(t[1])
             b == Base64Value(t[2])
         IN  IF t[3] = "=" THEN <<a * 4 + b \div 16>>
             ELSE LET c == Base64Value(t[3])
                  IN  IF t[4] = "="
                      THEN <<a * 4 + b \div 16, (b % 16) * 16 + c \div 4>>
                      ELSE <<a * 4 + b \div 16, (b % 16) * 16 + c \div 4,
                             (c % 4) * 64 + Base64Value(t[4])>>
                           \o Base64Decode(SubSeq(t, 5, Len(t)))

\* a text of groups of four Base64 characters, "=" only at the end of the last
WellFormedBase64(t) ==
    /\ Len(t) % 4 = 0
    /\ \A i \in DOMAIN t :
          \/ \E v \in DOMAIN Base64Alphabet : Base64Alphabet[v] = t[i]
          \/ t[i] = "=" /\ i >= Len(t) - 1 /\ (i = Len(t) - 1 => t[Len(t)] = "=")

\* C20: the password is well-formed Base64 without a line break, and decoding
\* it gives the bytes of short code, passkey and timestamp put one after the
\* other.
C20_PasswordRoundTrip ==
    fn = "generatePassword" /\ out # NoUnit =>
        LET combined == arg[1] \o arg[2] \o arg[3]
        IN  /\ \A i \in DOMAIN out[1] : out[1][i] # "\n"
            /\ WellFormedBase64(out[1])
            /\ Base64Decode(out[1]) = [i \in DOMAIN combined |-> Ord(combined[i])]

\* a password has been generated from a concatenation that needs padding and
\* holds a byte above 127
C20_PaddedPassword ==
    /\ fn = "generatePassword" /\ out # NoUnit
    /\ Len(arg[1] \o arg[2] \o arg[3]) % 3 = 1
    /\ \E i \in DOMAIN arg[2] : Ord(arg[2][i]) > 127
    /\ Len(out[1]) = 4 * ((Len(arg[1] \o arg[2] \o arg[3]) + 2) \div 3)
    /\ out[1][Len(out[1])] = "="

(***************************************************************************)
(* Properties of TimestampGenerator::isValid, checked under UnitSpec.      *)
(***************************************************************************)
\* C21: isValid answers, and answers true exactly for fourteen decimal digits
\* whose month is 01..12, day 01..31 whatever the month, hour 00..23, minute
\* and second 00..59.
C21_TimestampRule ==
    fn = "isValid" /\ out # NoUnit =>
        /\ out[1] \in BOOLEAN
        /\ out[1] <=>
              /\ Len(arg) = 14
              /\ \A i \in DOMAIN arg : arg[i] \in Digits
              /\ DigitVal(arg[5]) * 10 + DigitVal(arg[6]) \in 1..12
              /\ DigitVal(arg[7]) * 10 + DigitVal(arg[8]) \in 1..31
              /\ DigitVal(arg[9]) * 10 + DigitVal(arg[10]) \in 0..23
              /\ DigitVal(arg[11]) * 10 + DigitVal(arg[12]) \in 0..59
              /\ DigitVal(arg[13]) * 10 + DigitVal(arg[14]) \in 0..59

\* the 31st of February has been accepted
C21_February31 ==
    /\ fn = "isValid" /\ out # NoUnit
    /\ Len(arg) = 14
    /\ SubSeq(arg, 5, 8) = <<"0", "2", "3", "1">>
    /\ out[1] = TRUE

(***************************************************************************)
(* Properties of formatPhoneNumber, checked under UnitSpec.                *)
(***************************************************************************)
\* C22: with d the digits of the text, formatPhoneNumber returns a number
\* exactly when d is 254 and nine digits, or 0 and nine digits, or nine digits
\* that start neither with 254 nor with 0; the number is 254 and the last nine
\* digits of d, twelve digits in all.
C22_PhoneNormalization ==
    fn = "formatPhoneNumber" /\ out # NoUnit =>
        LET d == SelectSeq(arg, LAMBDA c : c \in Digits)
            with254 == Len(d) >= 3 /\ d[1] = "2" /\ d[2] = "5" /\ d[3] = "4"
            with0 == Len(d) >= 1 /\ d[1] = "0"
        IN  /\ out[1].ok <=> \/ with254 /\ Len(d) = 12
                             \/ with0 /\ Len(d) = 10
                             \/ ~with254 /\ ~with0 /\ Len(d) = 9
            /\ out[1].ok =>
                  /\ out[1].value = <<"2", "5", "4">> \o SubSeq(d, Len(d) - 8, Len(d))
                  /\ Len(out[1].value) = 12
                  /\ \A i \in DOMAIN out[1].value : out[1].value[i] \in Digits
            /\ ~out[1].ok => out[1].what # ""

\* "+254712345678" has been formatted to "254712345678", as "0712345678" is,
\* and a number of seven digits is refused
C22_PlusFormNormalized ==
    /\ fn = "formatPhoneNumber" /\ out # NoUnit
    /\ arg = <<"+", "2", "5", "4", "7", "1", "2", "3", "4", "5", "6", "7", "8">>
    /\ out[1] = Formatted(<<"2", "5", "4", "7", "1", "2", "3", "4", "5", "6", "7", "8">>)
    /\ formatPhoneNumber(<<"0", "7", "1", "2", "3", "4", "5", "6", "7", "8">>) = out[1]
    /\ ~formatPhoneNumber(<<"1", "2", "3", "4", "5", "6", "7">>).ok


\* the items of a callback body that was parsed
ItemsOf(body) ==
    LET stkCallback == body.fields["Body"].fields["stkCallback"]
        Item == stkCallback.fields["CallbackMetadata"].fields["Item"]
    IN  IF /\ "CallbackMetadata" \in DOMAIN stkCallback.fields
           /\ stkCallback.fields["CallbackMetadata"].jt = "object"
           /\ "Item" \in DOMAIN stkCallback.fields["CallbackMetadata"].fields
           /\ Item.jt = "array"
        THEN Item.items ELSE <<>>

\* the Value of the first item of that name, <<>> if there is none
FirstValue(items, name) ==
    LET named == {i \in DOMAIN items : items[i].fields["Name"].s = name}
    IN  IF named = {} THEN <<>>
        ELSE <<items[CHOOSE i \in named : \A j \in named : i <= j].fields["Value"]>>

\* C23: a parsed callback holds every metadata value by its JSON shape, a
\* float as double, an integer as int64_t, a text as std::string and any
\* other value as its serialized text; getAmount gives the float Amount of the
\* body and getMpesaReceiptNumber the text MpesaReceiptNumber of the body, and
\* each gives nothing when the item is absent or holds another type
C23_MetadataRoundTrip ==
    (fn = "parseCallback" /\ out # NoUnit /\ out[1].kind = "callback") =>
        LET items == ItemsOf(arg)
            stored == IF out[1].callbackMetadata = <<>> THEN <<>>
                      ELSE out[1].callbackMetadata[1]
            amount == FirstValue(items, <<"A", "m", "o", "u", "n", "t">>)
            receipt == FirstValue(items, <<"M", "p", "e", "s", "a", "R", "e", "c", "e", "i", "p", "t", "N", "u", "m", "b", "e", "r">>)
        IN  /\ Len(stored) = Len(items)
            /\ \A i \in DOMAIN items :
                  LET v == items[i].fields["Value"]
                      held == stored[i].value
                  IN  /\ stored[i].name = items[i].fields["Name"].s
                      /\ v.jt = "number_float" =>
                            held.type = "double" /\ held.n = v.n /\ held.hi = v.hi
                      /\ v.jt \in {"number_integer", "number_unsigned"} =>
                            held.type = "int64_t" /\ held.n = v.n /\ held.hi = v.hi
                      /\ v.jt = "string" => held.type = "std::string" /\ held.s = v.s
                      /\ v.jt \notin {"number_float", "number_integer",
                                      "number_unsigned", "string"} =>
                            held.type = "std::string" /\ held.s = dump(v)
            /\ IF amount # <<>> /\ amount[1].jt = "number_float"
               THEN /\ getAmount(out[1]) # <<>>
                    /\ getAmount(out[1])[1].n = amount[1].n
               ELSE getAmount(out[1]) = <<>>
            /\ IF receipt # <<>> /\ receipt[1].jt = "string"
               THEN /\ getMpesaReceiptNumber(out[1]) # <<>>
                    /\ getMpesaReceiptNumber(out[1])[1].s = receipt[1].s
               ELSE getMpesaReceiptNumber(out[1]) = <<>>

\* a callback with the amount 10.0 and the receipt NLJ7RT61SV, both read back
C23_AmountAndReceipt ==
    /\ fn = "parseCallback" /\ out # NoUnit /\ out[1].kind = "callback"
    /\ getAmount(out[1]) = <<Variant("double", <<>>, 0, 100)>>
    /\ getMpesaReceiptNumber(out[1]) =
          <<Variant("std::string", <<"N", "L", "J", "7", "R", "T", "6", "1", "S", "V">>, 0, 0)>>


\* C24: the resultCode of every parsed callback is an enumerator of
\* STKPushErrorCode, the one from_int gives for the ResultCode of the body
C24_ResultCodeEnumerated ==
    (fn = "parseCallback" /\ out # NoUnit /\ out[1].kind = "callback") =>
        LET ResultCode == arg.fields["Body"].fields["stkCallback"].fields["ResultCode"]
        IN  /\ out[1].resultCode \in STKPushErrorCode
            /\ ResultCode.jt = "number_integer" /\ ResultCode.hi = 0 =>
                  out[1].resultCode = from_int(ResultCode.n)
            /\ ResultCode.hi # 0 => out[1].resultCode # 0


\* C25: parseCallback is total: whatever the body, it returns a callback with
\* the four required members of the body, or throws std::runtime_error
C25_ParseTotal ==
    (fn = "parseCallback" /\ out # NoUnit) =>
        /\ out[1].kind \in {"callback", "error"}
        /\ out[1].kind = "callback" =>
              LET stkCallback == arg.fields["Body"].fields["stkCallback"]
              IN  /\ out[1].merchantRequestID = stkCallback.fields["MerchantRequestID"].s
                  /\ out[1].checkoutRequestID = stkCallback.fields["CheckoutRequestID"].s
                  /\ out[1].resultDesc = stkCallback.fields["ResultDesc"].s
                  /\ stkCallback.fields["ResultCode"].jt \in
                        {"number_integer", "number_unsigned", "number_float", "boolean"}


\* C26: map_mpesa_error returns SUCCESS exactly for a response without an
\* errorCode member; 400.008.02 gives INVALID_GRANT_TYPE, 400.008.01
\* INVALID_AUTH_TYPE, 401.002.01 INVALID_CREDENTIALS, 500.001.1001
\* SERVER_ERROR, and every other errorCode text API_ERROR
C26_ErrorMapping ==
    (fn = "map_mpesa_error" /\ out # NoUnit) =>
        LET present == arg.kind = "object" /\ "errorCode" \in DOMAIN arg.fields
            errorCode == arg.fields["errorCode"]
        IN  /\ ~present => out[1] = [thrown |-> "", code |-> SUCCESS]
            /\ present /\ errorCode.jt = "string" =>
                  /\ out[1].thrown = ""
                  /\ out[1].code # SUCCESS
                  /\ out[1].code =
                        CASE errorCode.s = <<"4", "0", "0", ".", "0", "0", "8", ".", "0", "2">> ->
                                INVALID_GRANT_TYPE
                          [] errorCode.s = <<"4", "0", "0", ".", "0", "0", "8", ".", "0", "1">> ->
                                INVALID_AUTH_TYPE
                          [] errorCode.s = <<"4", "0", "1", ".", "0", "0", "2", ".", "0", "1">> ->
                                INVALID_CREDENTIALS
                          [] errorCode.s = <<"5", "0", "0", ".", "0", "0", "1", ".", "1", "0", "0", "1">> ->
                                SERVER_ERROR
                          [] OTHER -> API_ERROR
            /\ out[1].thrown = "" /\ out[1].code = SUCCESS => ~present

\* a known code and a code that is not listed have both been mapped
C26_GrantTypeMapped ==
    /\ fn = "map_mpesa_error" /\ out # NoUnit
    /\ "errorCode" \in DOMAIN arg.fields
    /\ arg.fields["errorCode"].s = E400_008_02
    /\ out[1] = [thrown |-> "", code |-> INVALID_GRANT_TYPE]


\* C27: a token refresh is classified in this order: a transport failure
\* first, as DNS_ERROR (101), CONNECTION_ERROR (102), TIMEOUT_ERROR (103),
\* SSL_ERROR (104) or else NETWORK_ERROR (100), whatever status and body came
\* with it; then an HTTP status of 400 or more as HTTP_ERROR (301), whatever
\* the body; only below 400 is the errorCode of the body consulted, and only
\* a body without one has a token taken from it
C27_RefreshPrecedence ==
    [][\A t \in Threads : \A i \in DOMAIN TokenResponses :
          RefreshReceive(t, TokenResponses[i]) =>
              LET resp == TokenResponses[i]
                  kept == current_token_' = current_token_ /\ token_expiry_' = token_expiry_
                  coded == parse_ok(resp.body) /\ contains(resp.body, "errorCode")
              IN  /\ resp.res # "CURLE_OK" =>
                        /\ kept
                        /\ last_error_' =
                              CASE resp.res = "CURLE_COULDNT_RESOLVE_HOST" -> 101
                                [] resp.res = "CURLE_COULDNT_CONNECT" -> 102
                                [] resp.res = "CURLE_OPERATION_TIMEDOUT" -> 103
                                [] resp.res = "CURLE_SSL_CONNECT_ERROR" -> 104
                                [] OTHER -> 100
                  /\ resp.res = "CURLE_OK" /\ resp.http_code >= 400 =>
                        kept /\ last_error_' = 301
                  /\ resp.res = "CURLE_OK" /\ resp.http_code < 400 /\ coded
                     /\ is_string(resp.body.fields["errorCode"]) =>
                        /\ kept
                        /\ last_error_' = map_mpesa_error(resp.body)
                        /\ last_error_' \notin {SUCCESS, HTTP_ERROR}
                  /\ ~kept =>
                        /\ resp.res = "CURLE_OK" /\ resp.http_code < 400 /\ ~coded
                        /\ current_token_' = Some(resp.body.fields["access_token"].s)
      ]_vars

\* a refresh has ended in HTTP_ERROR and one in a transport error
C27_HttpErrorRecorded ==
    /\ last.kind = "call" /\ last.call.ret = "AuthenticationError"
    /\ last.call.code = HTTP_ERROR /\ last_error_ = HTTP_ERROR


\* C28: the task reports a transport failure before it looks at the HTTP
\* status; a status of 400 or more is always a failure, with the errorMessage
\* and errorCode of the body when the body is JSON that holds both as text,
\* and with the number of the status otherwise, even when the body holds all
\* five members of an acknowledgement
C28_DispatchPrecedence ==
    (fn = "classify" /\ out # NoUnit) =>
        LET body == arg.body
            text(k) == /\ body.kind = "object" /\ k \in DOMAIN body.fields
                       /\ body.fields[k].jt = "string"
        IN  /\ arg.res # "CURLE_OK" =>
                  /\ ~out[1].result.success /\ out[1].count = "F"
                  /\ out[1].result.error.prefix = "CURL error: "
            /\ arg.res = "CURLE_OK" /\ arg.http_code >= 400 =>
                  /\ ~out[1].result.success /\ out[1].count = "F"
                  /\ out[1].result.error =
                        IF text("errorMessage") /\ text("errorCode")
                        THEN [prefix |-> "API Error: ", lib |-> "",
                              a |-> body.fields["errorMessage"].s,
                              b |-> body.fields["errorCode"].s]
                        ELSE [prefix |-> "HTTP error: ", lib |-> "",
                              a |-> IF arg.http_code = 400 THEN <<"4", "0", "0">>
                                    ELSE <<"5", "0", "0">>,
                              b |-> <<>>]

\* a complete acknowledgement under status 500 has been reported as the
\* failure "HTTP error: 500"
C28_AcknowledgedUnderError ==
    /\ fn = "classify" /\ out # NoUnit /\ arg.res = "CURLE_OK" /\ arg.http_code = 500
    /\ arg.body.kind = "object" /\ DOMAIN arg.body.fields = AckKeys
    /\ \A k \in AckKeys : arg.body.fields[k].jt = "string"
    /\ ~out[1].result.success
    /\ out[1].result.error.prefix = "HTTP error: "
    /\ out[1].result.error.a = <<"5", "0", "0">>


\* C29: after the construction, every write of the cached token, of its
\* expiry and of the last error is made by a thread that holds token_mutex_:
\* the thread whose call takes the step has held the mutex since it sent the
\* token request, or takes the free mutex in the step that writes
C29_WritesUnderMutex ==
    [][(\/ current_token_' # current_token_
        \/ token_expiry_' # token_expiry_
        \/ last_error_' # last_error_) =>
          \E t \in Threads :
              /\ pc'[t] # pc[t]
              /\ \/ token_mutex_ = t /\ pc[t] = "auth_perform"
                 \/ token_mutex_ = NoThread /\ pc[t] = "auth_lock"
      ]_vars

\* a token has been written while another thread, which found the mutex held
\* when it called, still waits for it
C29_WrittenWhileOtherWaits ==
    /\ current_token_ # nullopt
    /\ \E t \in Threads : pc[t] = "auth_lock" /\ call[t].waited


\* C30: every dispatch comes to its end, whatever the remote side does: the
\* task of a thread that has launched one reaches "done"
C30_DispatchCompletes ==
    \A t \in Threads : (op[t] = "initiateSTKPush" /\ pc[t] # "done") ~> (pc[t] = "done")


\* C31: the metadata of a callback is optional and ordered: a body with the
\* four required members and without CallbackMetadata, or with a
\* CallbackMetadata that has no Item, is parsed and its callbackMetadata is
\* empty; with an Item the parsed list has one entry for each item of the
\* body, in the order of the body, each with the Name of its item
C31_MetadataOptionalOrdered ==
    (fn = "parseCallback" /\ out # NoUnit /\ arg.jt = "object"
     /\ "Body" \in DOMAIN arg.fields /\ arg.fields["Body"].jt = "object"
     /\ "stkCallback" \in DOMAIN arg.fields["Body"].fields
     /\ arg.fields["Body"].fields["stkCallback"].jt = "object") =>
        LET stkCallback == arg.fields["Body"].fields["stkCallback"]
            required == /\ \A k \in {"MerchantRequestID", "CheckoutRequestID", "ResultDesc"} :
                              k \in DOMAIN stkCallback.fields
                              /\ stkCallback.fields[k].jt = "string"
                        /\ "ResultCode" \in DOMAIN stkCallback.fields
                        /\ stkCallback.fields["ResultCode"].jt = "number_integer"
            meta == stkCallback.fields["CallbackMetadata"]
            without == \/ "CallbackMetadata" \notin DOMAIN stkCallback.fields
                       \/ meta.jt # "object"
                       \/ "Item" \notin DOMAIN meta.fields
        IN  /\ required /\ without =>
                  out[1].kind = "callback" /\ out[1].callbackMetadata = <<>>
            /\ out[1].kind = "callback" /\ ~without =>
                  /\ out[1].callbackMetadata # <<>>
                  /\ Len(out[1].callbackMetadata[1]) = Len(ItemsOf(arg))
                  /\ \A i \in DOMAIN ItemsOf(arg) :
                        out[1].callbackMetadata[1][i].name =
                            ItemsOf(arg)[i].fields["Name"].s

\* a callback with two items of different names, parsed in their order
C31_TwoItemsInOrder ==
    /\ fn = "parseCallback" /\ out # NoUnit /\ out[1].kind = "callback"
    /\ out[1].callbackMetadata # <<>>
    /\ Len(out[1].callbackMetadata[1]) = 2
    /\ out[1].callbackMetadata[1][1].name =
          <<"M", "p", "e", "s", "a", "R", "e", "c", "e", "i", "p", "t", "N", "u", "m", "b", "e", "r">>
    /\ out[1].callbackMetadata[1][2].name = <<"A", "m", "o", "u", "n", "t">>


\* the spellings of "production", letter by letter
ProductionSpellings ==
    << {"p", "P"}, {"r", "R"}, {"o", "O"}, {"d", "D"}, {"u", "U"}, {"c", "C"},
       {"t", "T"}, {"i", "I"}, {"o", "O"}, {"n", "N"} >>

\* C32: from_env selects production exactly when MPESA_ENVIRONMENT is set to
\* "production" in any mixture of upper and lower case, and sandbox otherwise;
\* it fails with CONFIG_ERROR exactly when one of MPESA_CONSUMER_KEY,
\* MPESA_CONSUMER_SECRET and MPESA_STK_PASSKEY is unset
C32_EnvironmentSelection ==
    (fn = "from_env" /\ out # NoUnit) =>
        LET unset == \/ arg.MPESA_CONSUMER_KEY = <<>> \/ arg.MPESA_CONSUMER_SECRET = <<>>
                     \/ arg.MPESA_STK_PASSKEY = <<>>
            production ==
                /\ arg.MPESA_ENVIRONMENT # <<>>
                /\ Len(arg.MPESA_ENVIRONMENT[1]) = Len(ProductionSpellings)
                /\ \A i \in DOMAIN ProductionSpellings :
                      arg.MPESA_ENVIRONMENT[1][i] \in ProductionSpellings[i]
        IN  /\ unset <=> out[1].thrown = "AuthenticationError" /\ out[1].code = CONFIG_ERROR
            /\ ~unset => (out[1].thrown = "" /\ (out[1].config.sandbox <=> ~production))


\* C33: whenever the cached token is usable, present and not yet at its
\* expiry, the last error is SUCCESS; a last error other than SUCCESS means
\* that the cache is empty or expired
C33_UsableMeansNoError ==
    (current_token_ # nullopt /\ now < token_expiry_) => last_error_ = SUCCESS

\* the first call failed and a later refresh has put a usable token in the
\* cache
C33_RecoveredAfterFailure ==
    /\ hist.firstDone /\ ~hist.firstOk
    /\ current_token_ # nullopt /\ now < token_expiry_ /\ last_error_ = SUCCESS


\* the token endpoint answered with an expires_in below zero
NegativeExpiry(resp) ==
    /\ resp.body.kind = "object" /\ "expires_in" \in DOMAIN resp.body.fields
    /\ resp.body.fields["expires_in"].jt = "string"
    /\ stoi(resp.body.fields["expires_in"].s).ok
    /\ stoi(resp.body.fields["expires_in"].s).val < 0

\* C34: the stored expiry never decreases: no step but the end of a refresh
\* changes it, and the end of a refresh, successful or failed, whose answer
\* carries no negative expires_in leaves it where it was or moves it forward
C34_ExpiryNeverDecreases ==
    [][/\ \A t \in Threads : \A i \in DOMAIN TokenResponses :
             (RefreshReceive(t, TokenResponses[i]) /\ ~NegativeExpiry(TokenResponses[i]))
                 => token_expiry_' >= token_expiry_
       /\ token_expiry_' # token_expiry_ =>
             \E t \in Threads : \E i \in DOMAIN TokenResponses :
                 RefreshReceive(t, TokenResponses[i])
      ]_vars

\* a second refresh has moved the expiry beyond the one the first call left
C34_ExpiryMovedTwice ==
    /\ hist.firstDone /\ hist.firstExpiry > Epoch
    /\ token_expiry_ > hist.firstExpiry


C36_NoReadDuringRefresh ==
    last.kind \in {"getLastError", "isTokenValid"} => ~last.call.waited


\* the request with the other transaction type
OtherKind(request) ==
    [request EXCEPT !.transactionType =
        IF @ = "CustomerPayBillOnline" THEN "CustomerBuyGoodsOnline"
        ELSE "CustomerPayBillOnline"]

C38_FormattedPassesPhoneRule ==
    (fn = "formatPhoneNumber" /\ out # NoUnit /\ out[1].ok) =>
        /\ phone_regex(out[1].value)
        /\ validateSTKPushRequest([ValidRequest EXCEPT !.partyA = out[1].value,
                                                      !.phoneNumber = out[1].value])
              = ValidationSuccess


\* C39: the destruction of the client comes after the end of every dispatch
\* it started: once the destructor has run its curl_global_cleanup, no task
\* of the client is still on its way, and none takes a step
C39_DestroyedAfterDispatches ==
    ~heap.global => \A t \in Threads : pc[t] \in {"idle", "done"}

====
